---- MODULE Spec2Model ----
(***************************************************************************)
(* A model of the source-resolution and tile-archive core of martin:       *)
(*   - the ID resolver as used by Config::resolve / PgConfig::resolve,      *)
(*   - the mbtiles TileCopier,                                              *)
(*   - Mbtiles::get_metadata / detect_format,                               *)
(*   - Mbtiles::get_tile and its XYZ -> TMS row conversion,                 *)
(*   - Mbtiles::detect_type, parse_metadata and get_metadata_value,         *)
(*   - MbtSource::get_tile and the composite tile endpoint,                 *)
(*   - Config::merge and PgConfig::merge, PgConfig::finalize,               *)
(*   - start-up of both binaries, the archive's connection pool and the     *)
(*     source-index endpoints.                                              *)
(* Each part has its own specification over the shared variables; the       *)
(* variables of the other parts stay at their idle values.                  *)
(***************************************************************************)
EXTENDS Integers, Sequences, FiniteSets, Bags, TLC

VARIABLES
    \* ---- ID resolver and Config::resolve -------------------------------
    names,      \* resolver state -> set of claimed IDs (shared by clones)
    lock,       \* holder of the resolver mutex: a task, or NoTask
    tpc,        \* discovery task -> "idle" | "locked" | "chosen" | "done"
    cur,        \* discovery task -> [desired, id] of the resolve in progress
    found,      \* discovery task -> the (id, source) map it has built
    log,        \* history of finished resolve calls
    pgSources,  \* postgres config -> Some(result of PgConfig::resolve)
    sources,    \* Some(result of Config::resolve)
    \* ---- TileCopier -----------------------------------------------------
    srcDb,      \* the source archive file
    dstDb,      \* the destination archive file
    dstBefore,  \* the destination as it was before the last run
    lastOpts,   \* TileCopierOptions of the last run
    lastResult, \* outcome of the last run
    prevResult, \* outcome of the run before it
    \* ---- Mbtiles::get_metadata -----------------------------------------
    archive,    \* the archive get_metadata reads
    outcomes,   \* the outcomes of the get_metadata calls so far
    sampled,    \* per call, the tile rows its sampling queries yielded, in order
    \* ---- Mbtiles::get_tile ---------------------------------------------
    build,      \* "debug" (overflow checks) or "release" (wrapping)
    req,        \* the last tile request [z, x, y]
    tmsRow,     \* the stored (TMS) row computed for it
    backY,      \* the conversion applied to that row again
    tileOut,    \* what get_tile returned
    \* ---- Mbtiles::detect_type ------------------------------------------
    mbt,        \* [filepath, db, type]: an open file and Some(detect_type's result)
    \* ---- Mbtiles::parse_metadata, get_metadata_value -------------------
    metadata,   \* [rows, parsed, key, value]: the metadata table and what was read
    \* ---- MbtSource::get_tile -------------------------------------------
    mbtSource,  \* [id, fault, xyz, pool, tile]: a source and its last tile read
    \* ---- get_composite_source_tile -------------------------------------
    app,        \* [table_sources, path, queries, response]: AppState and a request
    \* ---- Config::merge, PgConfig::merge --------------------------------
    config,     \* [self, other, merged, pgMerged]: two layers and self after merge
    \* ---- start (martin/src/bin/main.rs) --------------------------------
    proc,       \* the starting process: inputs, config, steps taken, exit
    \* ---- parse_env, start (src/bin/main.rs) ----------------------------
    legacy,     \* the starting process of the earlier binary
    \* ---- PgConfig::finalize --------------------------------------------
    pgFinal,    \* [pg, result]: a PgConfig and Some(finalize's result)
    \* ---- the archive's connection pool ---------------------------------
    pool,       \* [pc, holds, idle]: the calls in flight and the idle connections
    \* ---- the source-index endpoints ------------------------------------
    registry    \* AppState's sources, the database's, and the last response

resolveVars == <<names, lock, tpc, cur, found, log, pgSources, sources>>
copyVars == <<srcDb, dstDb, dstBefore, lastOpts, lastResult, prevResult>>
metaVars == <<archive, outcomes, sampled>>
tileVars == <<build, req, tmsRow, backY, tileOut>>
laterVars == <<mbt, metadata, mbtSource, app, config>>
lastVars == <<proc, legacy, pgFinal, pool, registry>>
vars == <<resolveVars, copyVars, metaVars, tileVars, laterVars, lastVars>>

None == "none"

\* Option<T>: NoVal is None, Some(v) holds v
NoVal == <<>>

Some(v) == <<v>>

Get(o) == o[1]

\* the other parts' variables, left alone by each part's actions
ResolveFrame == UNCHANGED <<copyVars, metaVars, tileVars, laterVars, lastVars>>

(***************************************************************************)
(* Maps (HashMap) as sets of <<key, value>> pairs with at most one pair    *)
(* per key.                                                                 *)
(***************************************************************************)
Keys(m) == {p[1] : p \in m}

MapInsert(m, k, v) == {p \in m : p[1] # k} \cup {<<k, v>>}

\* HashMap::extend: the entries of m2 replace those of m1 with the same key
MapExtend(m1, m2) == {p \in m1 : p[1] \notin Keys(m2)} \cup m2

(***************************************************************************)
(* ID resolver                                                              *)
(***************************************************************************)
\* bound: resolve calls per start-up
MaxCalls == 3

\* the postgres sections of the configuration (OneOrMany<PgConfig>)
PgConfigs == {1, 2}

\* the two discoveries PgConfig::resolve joins
Kinds == {"tables", "functions"}

Tasks == PgConfigs \X Kinds

NoTask == <<0, "none">>

\* the names discovery may ask for: repeated, already-suffixed and reserved
DesiredNames == {"a", "a.1", "health"}

RESERVED_KEYWORDS == {"health", "index", "catalog", "rpc"}

\* a resolver built as IdResolver::default() is: nothing reserved
StartReservedDefault == {}

\* IdResolver::new(RESERVED_KEYWORDS) in start
StartReserved == RESERVED_KEYWORDS

\* the resolver state created by IdResolver::new in start
RootIdr == 0

Suffixed(desired, k) == desired \o "." \o ToString(k)

RECURSIVE NextFree(_, _, _)
NextFree(claimed, desired, k) ==
    IF Suffixed(desired, k) \notin claimed
    THEN Suffixed(desired, k)
    ELSE NextFree(claimed, desired, k + 1)

\* IdResolver::resolve: the ID handed out for `desired`
ResolveId(claimed, reserved, desired) ==
    IF desired \notin claimed /\ desired \notin reserved
    THEN desired
    ELSE NextFree(claimed, desired, 1)

\* a clone that copied the resolver's state instead of sharing it
CloneIdrFresh(h, i) == i

\* idr.clone() in Config::resolve: a handle to the same shared state
CloneIdr(h, i) == h

\* a builder that made a resolver of its own for its config
BuilderIdrDefault(h, i) == i

\* PgBuilder::new(self, id_resolver): both discoveries of one postgres
\* config register through the resolver PgConfig::resolve was given
BuilderIdr(h, i) == h

\* the resolver state a discovery task of postgres config i works on
TaskIdr(t) == BuilderIdr(CloneIdr(RootIdr, t[1]), t[1])

IdrStates == {RootIdr} \cup PgConfigs

\* start: a fresh resolver, nothing discovered yet; no archive is involved
ResolveInit ==
    /\ names = [h \in IdrStates |-> {}]
    /\ lock = NoTask
    /\ tpc = [t \in Tasks |-> "idle"]
    /\ cur = [t \in Tasks |-> [desired |-> None, id |-> None]]
    /\ found = [t \in Tasks |-> {}]
    /\ log = <<>>
    /\ pgSources = [i \in PgConfigs |-> NoVal]
    /\ sources = NoVal
    /\ srcDb = None /\ dstDb = None /\ dstBefore = None
    /\ lastOpts = None /\ lastResult = None /\ prevResult = None
    /\ archive = None /\ outcomes = <<>> /\ sampled = <<>>
    /\ build = None /\ req = NoVal /\ tmsRow = NoVal /\ backY = NoVal /\ tileOut = NoVal
    /\ proc = NoVal /\ legacy = NoVal /\ pgFinal = NoVal /\ pool = NoVal /\ registry = NoVal
    /\ mbt = NoVal /\ metadata = NoVal /\ mbtSource = NoVal /\ app = NoVal /\ config = NoVal

\* resolve: take the mutex
ResolveEnter(t, desired) ==
    /\ tpc[t] = "idle"
    /\ lock = NoTask
    /\ Len(log) + Cardinality({u \in Tasks : tpc[u] \in {"locked", "chosen"}}) < MaxCalls
    /\ lock' = t
    /\ tpc' = [tpc EXCEPT ![t] = "locked"]
    /\ cur' = [cur EXCEPT ![t] = [desired |-> desired, id |-> None]]
    /\ UNCHANGED <<names, found, log, pgSources, sources>>
    /\ ResolveFrame

\* resolve: look the name up under the mutex
ResolveLookup(t) ==
    /\ tpc[t] = "locked"
    /\ tpc' = [tpc EXCEPT ![t] = "chosen"]
    /\ cur' = [cur EXCEPT ![t].id =
                  ResolveId(names[TaskIdr(t)], StartReserved, cur[t].desired)]
    /\ UNCHANGED <<names, lock, found, log, pgSources, sources>>
    /\ ResolveFrame

\* resolve: claim the ID, return it (the guard is dropped), and the
\* discovery registers its source under the returned ID
ResolveClaim(t) ==
    /\ tpc[t] = "chosen"
    /\ names' = [names EXCEPT ![TaskIdr(t)] = @ \cup {cur[t].id}]
    /\ lock' = NoTask
    /\ found' = [found EXCEPT ![t] =
                    MapInsert(@, cur[t].id, <<t, Cardinality(found[t]) + 1>>)]
    /\ log' = Append(log, [task |-> t,
                           desired |-> cur[t].desired,
                           before |-> names[TaskIdr(t)],
                           ret |-> cur[t].id])
    /\ tpc' = [tpc EXCEPT ![t] = "idle"]
    /\ cur' = [cur EXCEPT ![t] = [desired |-> None, id |-> None]]
    /\ UNCHANGED <<pgSources, sources>>
    /\ ResolveFrame

\* a discovery (instantiate_tables / instantiate_functions) returns
DiscoveryDone(t) ==
    /\ tpc[t] = "idle"
    /\ tpc' = [tpc EXCEPT ![t] = "done"]
    /\ UNCHANGED <<names, lock, cur, found, log, pgSources, sources>>
    /\ ResolveFrame

\* PgConfig::resolve after try_join: tables.extend(funcs)
PgResolve(i) ==
    /\ pgSources[i] = NoVal
    /\ \A k \in Kinds : tpc[<<i, k>>] = "done"
    /\ pgSources' = [pgSources EXCEPT ![i] =
                        Some(MapExtend(found[<<i, "tables">>], found[<<i, "functions">>]))]
    /\ UNCHANGED <<names, lock, tpc, cur, found, log, sources>>
    /\ ResolveFrame

RECURSIVE FoldSources(_, _)
FoldSources(acc, todo) ==
    IF todo = {} THEN acc
    ELSE LET i == CHOOSE j \in todo : \A k \in todo : j <= k
         IN FoldSources(MapExtend(acc, Get(pgSources[i])), todo \ {i})

\* Config::resolve after try_join_all: fold the per-config maps into one
ConfigResolve ==
    /\ sources = NoVal
    /\ \A i \in PgConfigs : pgSources[i] # NoVal
    /\ sources' = Some(FoldSources({}, PgConfigs))
    /\ UNCHANGED <<names, lock, tpc, cur, found, log, pgSources>>
    /\ ResolveFrame

ResolveNext ==
    \/ \E t \in Tasks, d \in DesiredNames : ResolveEnter(t, d)
    \/ \E t \in Tasks : ResolveLookup(t)
    \/ \E t \in Tasks : ResolveClaim(t)
    \/ \E t \in Tasks : DiscoveryDone(t)
    \/ \E i \in PgConfigs : PgResolve(i)
    \/ ConfigResolve

SpecResolve == ResolveInit /\ [][ResolveNext]_vars

(***************************************************************************)
(* TileCopier                                                               *)
(***************************************************************************)
\* bound: rows in the source's map / tiles table
MaxRows == 2

ZoomLevels == {0, 1, 2}

TileIds == {"t1", "t2"}

\* rows of tiles(zoom_level, tile_column, tile_row, tile_data)
TileRows == {[z |-> z, x |-> 0, y |-> 0, data |-> "d1"] : z \in ZoomLevels}

\* rows of map(zoom_level, tile_column, tile_row, tile_id)
MapRows == {[z |-> z, x |-> 0, y |-> 0, id |-> t] : z \in ZoomLevels, t \in TileIds}

\* rows of images, by column name
ImageRows == {[id |-> "t1", data |-> "d1"], [id |-> "t2", data |-> "d2"]}

MetaRows == {[name |-> "name", value |-> "cities"]}

\* an archive file: whether it exists, the objects of sqlite_schema, whether
\* images is declared (tile_data, tile_id), and the rows of each table
Db(exists, schema, dataFirst, meta, tiles, map, images) ==
    [exists |-> exists, schema |-> schema, dataFirst |-> dataFirst,
     meta |-> meta, tiles |-> tiles, map |-> map, images |-> images]

MissingDb == Db(FALSE, {}, TRUE, EmptyBag, EmptyBag, EmptyBag, EmptyBag)

EmptyDb == Db(TRUE, {}, TRUE, EmptyBag, EmptyBag, EmptyBag, EmptyBag)

AtMost(S, n) == {R \in SUBSET S : Cardinality(R) <= n}

\* archives with a tiles table
TileTableDbs ==
    {Db(TRUE, {"tiles"} \cup m, TRUE,
        IF m = {} THEN EmptyBag ELSE SetToBag(MetaRows),
        SetToBag(rows), EmptyBag, EmptyBag) :
        m \in {{}, {"metadata"}}, rows \in AtMost(TileRows, MaxRows)}

\* archives with metadata, map and images tables and the tiles view over
\* their join, with or without the unique index on images(tile_id)
DeDuplicatedDbs ==
    {Db(TRUE, {"metadata", "map", "images", "tiles_view"} \cup u, df,
        SetToBag(MetaRows), EmptyBag, SetToBag(mrows), SetToBag(irows)) :
        u \in {{}, {"images_id"}}, df \in BOOLEAN,
        mrows \in AtMost(MapRows, MaxRows), irows \in SUBSET ImageRows}

\* files that are no tile archive
InvalidDbs ==
    {EmptyDb,
     Db(TRUE, {"metadata"}, TRUE, SetToBag(MetaRows), EmptyBag, EmptyBag, EmptyBag)}

SourceDbs == {MissingDb} \cup InvalidDbs \cup TileTableDbs \cup DeDuplicatedDbs

\* the destination before the first run: no file, an empty file, or a file
\* that already holds a table
TargetDbs ==
    {MissingDb, EmptyDb,
     Db(TRUE, {"metadata"}, TRUE, SetToBag(MetaRows), EmptyBag, EmptyBag, EmptyBag)}

\* TileCopierOptions
Options ==
    [zooms : {{}, {0, 2}},
     min_zoom : {NoVal, Some(1), Some(2)},
     max_zoom : {NoVal, Some(0), Some(1)}]

\* mbtiles_queries::is_deduplicated_type
IsDeduplicatedType(db) == {"map", "images"} \subseteq db.schema

\* mbtiles_queries::is_tile_tables_type
IsTileTablesType(db) == "tiles" \in db.schema \/ "tiles_view" \in db.schema

\* a detect_type that asks for the tiles table first
DetectTypeTilesFirst(db) ==
    IF IsTileTablesType(db) THEN "TileTables"
    ELSE IF IsDeduplicatedType(db) THEN "DeDuplicated"
    ELSE "InvalidDataFormat"

\* Mbtiles::detect_type
DetectType(db) ==
    IF IsDeduplicatedType(db) THEN "DeDuplicated"
    ELSE IF IsTileTablesType(db) THEN "TileTables"
    ELSE "InvalidDataFormat"

\* the WHERE clause were the bounds looked at before the zoom list
ZoomPredicateBoundsFirst(o, z) ==
    IF o.min_zoom # NoVal
    THEN IF o.max_zoom # NoVal
         THEN Get(o.min_zoom) <= z /\ z <= Get(o.max_zoom)
         ELSE z >= Get(o.min_zoom)
    ELSE IF o.max_zoom # NoVal
    THEN z <= Get(o.max_zoom)
    ELSE IF o.zooms # {}
    THEN z \in o.zooms
    ELSE TRUE

\* run_query_with_options: the WHERE clause appended to the statement
ZoomPredicate(o, z) ==
    IF o.zooms # {}
    THEN z \in o.zooms
    ELSE IF o.min_zoom # NoVal
    THEN IF o.max_zoom # NoVal
         THEN Get(o.min_zoom) <= z /\ z <= Get(o.max_zoom)
         ELSE z >= Get(o.min_zoom)
    ELSE IF o.max_zoom # NoVal
    THEN z <= Get(o.max_zoom)
    ELSE TRUE

\* a run that does not look at the target's schema
TargetCheckSkipped(db) == FALSE

\* "SELECT 1 FROM sqlite_schema LIMIT 1" finds a row
TargetNonEmpty(db) == db.schema # {}

\* the objects whose tbl_name is metadata, tiles, map or images: the tables,
\* the tiles view and the index on images
CopiedSchema(src) ==
    src.schema \cap {"metadata", "tiles", "tiles_view", "map", "images", "images_id"}

\* "SELECT images.tile_data, images.tile_id" inserted into images by
\* position: the row as it lands in a table declared like the source's
StoredImage(src, i) ==
    IF src.dataFirst THEN i ELSE [id |-> i.data, data |-> i.id]

\* sourceDb.images JOIN sourceDb.map ON tile_id, filtered on zoom_level:
\* one result row per pair of an image and a map row that passes
JoinedImages(src, o) ==
    LET pairs(i) == {m \in BagToSet(src.map) : m.id = i.id /\ ZoomPredicate(o, m.z)}
        hit == {i \in BagToSet(src.images) : pairs(i) # {}}
    IN [r \in {StoredImage(src, i) : i \in hit} |->
           Cardinality(pairs(CHOOSE i \in hit : StoredImage(src, i) = r))]

\* the unique index on images(tile_id) rejects the rows
UniqueViolated(db, rows) ==
    /\ "images_id" \in db.schema
    /\ \/ \E r \in DOMAIN rows : rows[r] > 1
       \/ \E r1, r2 \in DOMAIN rows : r1 # r2 /\ r1.id = r2.id

\* copy_tile_tables
CopyTileTables(src, dst, o) ==
    IF "tiles" \notin dst.schema
    THEN [result |-> "SqlError", dst |-> dst]
    ELSE [result |-> "Ok",
          dst |-> [dst EXCEPT !.tiles =
                      @ (+) SetToBag({t \in BagToSet(src.tiles) : ZoomPredicate(o, t.z)})]]

\* copy_deduplicated
CopyDeduplicated(src, dst, o) ==
    LET withMap == [dst EXCEPT !.map = @ (+) src.map]
        rows == JoinedImages(src, o)
    IN IF UniqueViolated(withMap, rows)
       THEN [result |-> "SqlError", dst |-> withMap]
       ELSE [result |-> "Ok", dst |-> [withMap EXCEPT !.images = @ (+) rows]]

\* a run whose destination is opened, and so created, before the source is
\* looked at
RunOutcomeTargetFirst(src, dst, o) ==
    LET opened == [dst EXCEPT !.exists = TRUE]
    IN IF ~src.exists
       THEN [result |-> "SqlError", dst |-> opened]
       ELSE IF DetectType(src) = "InvalidDataFormat"
       THEN [result |-> "InvalidDataFormat", dst |-> opened]
       ELSE IF TargetNonEmpty(opened)
       THEN [result |-> "NonEmptyTargetFile", dst |-> opened]
       ELSE LET created == [opened EXCEPT !.schema = @ \cup CopiedSchema(src),
                                          !.dataFirst = src.dataFirst]
            IN IF "metadata" \notin src.schema
               THEN [result |-> "SqlError", dst |-> created]
               ELSE LET filled == [created EXCEPT !.meta = @ (+) src.meta]
                    IN IF DetectType(src) = "TileTables"
                       THEN CopyTileTables(src, filled, o)
                       ELSE CopyDeduplicated(src, filled, o)

\* TileCopier::run: its result and the destination it leaves
RunOutcome(src, dst, o) ==
    IF ~src.exists
    THEN [result |-> "SqlError", dst |-> dst]
    ELSE IF DetectType(src) = "InvalidDataFormat"
    THEN [result |-> "InvalidDataFormat", dst |-> dst]
    ELSE LET opened == [dst EXCEPT !.exists = TRUE]
         IN IF TargetNonEmpty(opened)
            THEN [result |-> "NonEmptyTargetFile", dst |-> opened]
            ELSE LET created == [opened EXCEPT !.schema = @ \cup CopiedSchema(src),
                                               !.dataFirst = src.dataFirst]
                 IN IF "metadata" \notin src.schema
                    THEN [result |-> "SqlError", dst |-> created]
                    ELSE LET filled == [created EXCEPT !.meta = @ (+) src.meta]
                         IN IF DetectType(src) = "TileTables"
                            THEN CopyTileTables(src, filled, o)
                            ELSE CopyDeduplicated(src, filled, o)

\* the schema objects an SQL table name stands for
NamedObjects(table) ==
    IF table = "tiles" THEN {"tiles", "tiles_view"} ELSE {table}

\* an unqualified name resolved in the attached database first
InsertTargetAttachedFirst(table, main, src) ==
    IF NamedObjects(table) \cap src.schema # {} THEN "sourceDb"
    ELSE IF NamedObjects(table) \cap main.schema # {} THEN "main"
    ELSE "none"

\* the database an unqualified table name of an INSERT INTO resolves to on
\* the destination connection with the source attached as sourceDb: main
\* when it has the name, else the attached database
InsertTarget(table, main, src) ==
    IF NamedObjects(table) \cap main.schema # {} THEN "main"
    ELSE IF NamedObjects(table) \cap src.schema # {} THEN "sourceDb"
    ELSE "none"

\* TileCopier::run: the source it leaves.  The source is read on a read-only
\* connection, then attached to the destination connection, on which every
\* INSERT names its table without a schema.
SourceAfter(src, dst, o) ==
    IF ~src.exists \/ DetectType(src) = "InvalidDataFormat"
    THEN src
    ELSE LET opened == [dst EXCEPT !.exists = TRUE]
             created == [opened EXCEPT !.schema = @ \cup CopiedSchema(src)]
             toSource(table) == InsertTarget(table, created, src) = "sourceDb"
         IN IF TargetNonEmpty(opened) \/ "metadata" \notin src.schema
            THEN src
            ELSE LET withMeta == IF toSource("metadata")
                                 THEN [src EXCEPT !.meta = @ (+) src.meta]
                                 ELSE src
                 IN IF DetectType(src) = "TileTables"
                    THEN IF toSource("tiles") /\ "tiles" \in src.schema
                         THEN [withMeta EXCEPT !.tiles =
                                  @ (+) SetToBag({t \in BagToSet(src.tiles) :
                                                     ZoomPredicate(o, t.z)})]
                         ELSE withMeta
                    ELSE LET withMap == IF toSource("map")
                                        THEN [withMeta EXCEPT !.map = @ (+) src.map]
                                        ELSE withMeta
                         IN IF toSource("images")
                               /\ ~UniqueViolated(withMap, JoinedImages(src, o))
                            THEN [withMap EXCEPT !.images = @ (+) JoinedImages(src, o)]
                            ELSE withMap

\* the files before any run; the resolver and the readers are not involved
CopyInit ==
    /\ srcDb \in SourceDbs
    /\ dstDb \in TargetDbs
    /\ dstBefore = None /\ lastOpts = None
    /\ lastResult = None /\ prevResult = None
    /\ names = [h \in IdrStates |-> {}]
    /\ lock = NoTask
    /\ tpc = [t \in Tasks |-> "idle"]
    /\ cur = [t \in Tasks |-> [desired |-> None, id |-> None]]
    /\ found = [t \in Tasks |-> {}]
    /\ log = <<>>
    /\ pgSources = [i \in PgConfigs |-> NoVal]
    /\ sources = NoVal
    /\ archive = None /\ outcomes = <<>> /\ sampled = <<>>
    /\ build = None /\ req = NoVal /\ tmsRow = NoVal /\ backY = NoVal /\ tileOut = NoVal
    /\ proc = NoVal /\ legacy = NoVal /\ pgFinal = NoVal /\ pool = NoVal /\ registry = NoVal
    /\ mbt = NoVal /\ metadata = NoVal /\ mbtSource = NoVal /\ app = NoVal /\ config = NoVal

\* TileCopier::new(src, dst, options).run()
Run(o) ==
    /\ dstBefore' = dstDb
    /\ dstDb' = RunOutcome(srcDb, dstDb, o).dst
    /\ lastResult' = RunOutcome(srcDb, dstDb, o).result
    /\ prevResult' = lastResult
    /\ lastOpts' = o
    /\ srcDb' = SourceAfter(srcDb, dstDb, o)
    /\ UNCHANGED <<resolveVars, metaVars, tileVars, laterVars, lastVars>>

CopyNext == \E o \in Options : Run(o)

SpecCopy == CopyInit /\ [][CopyNext]_vars

(***************************************************************************)
(* Mbtiles::get_tile                                                        *)
(***************************************************************************)
\* bound: the largest zoom level of the requests inside the tile pyramid
MaxZ == 22

\* the tiles table of the archive read, rows being TMS rows
StoredTiles ==
    {[z |-> 0, x |-> 0, y |-> 0, data |-> "png"],
     [z |-> 1, x |-> 0, y |-> 1, data |-> "png"],
     [z |-> 2, x |-> 0, y |-> 0, data |-> "empty"]}

\* a u32 value, the value 2^32 - below left by a wrapping subtraction, or
\* the panic of an overflow check
Row(v) == [kind |-> "row", v |-> v]

Wrapped(k) == [kind |-> "wrapped", below |-> k]

Panic == [kind |-> "panic"]

\* the conversion taken from the row count 2^z, not the last row 2^z - 1
FlipYOffByOne(b, z, y) ==
    IF y <= 2^z
    THEN Row(2^z - y)
    ELSE IF b = "debug" THEN Panic ELSE Wrapped(y - 2^z)

\* (1 << z) - 1 - y on u32: an underflow panics where overflow checks are
\* compiled in and wraps where they are not
FlipY(b, z, y) ==
    IF y <= 2^z - 1
    THEN Row(2^z - 1 - y)
    ELSE IF b = "debug" THEN Panic ELSE Wrapped(y - (2^z - 1))

\* the rows requested of zoom z: the corners of the pyramid level, its
\* middle, and rows beyond it
RequestRows(z) ==
    {y \in {0, 1, 2^z \div 2, 2^z - 2, 2^z - 1} : 0 <= y /\ y < 2^z}
        \cup {2^z, 2^z + 1}

\* the zoom levels requested: the pyramid's, and one beyond the deepest
RequestZooms == 0..(MaxZ + 1)

\* "SELECT tile_data from tiles where zoom_level = ? AND tile_column = ?
\* AND tile_row = ?", fetch_optional
LookupTile(z, x, row) ==
    IF row.kind = "row" /\ \E t \in StoredTiles : t.z = z /\ t.x = x /\ t.y = row.v
    THEN Some((CHOOSE t \in StoredTiles : t.z = z /\ t.x = x /\ t.y = row.v).data)
    ELSE NoVal

\* an archive is open, in either build; no request was made yet
TileInit ==
    /\ build \in {"debug", "release"}
    /\ req = NoVal /\ tmsRow = NoVal /\ backY = NoVal /\ tileOut = NoVal
    /\ proc = NoVal /\ legacy = NoVal /\ pgFinal = NoVal /\ pool = NoVal /\ registry = NoVal
    /\ mbt = NoVal /\ metadata = NoVal /\ mbtSource = NoVal /\ app = NoVal /\ config = NoVal
    /\ names = [h \in IdrStates |-> {}]
    /\ lock = NoTask
    /\ tpc = [t \in Tasks |-> "idle"]
    /\ cur = [t \in Tasks |-> [desired |-> None, id |-> None]]
    /\ found = [t \in Tasks |-> {}]
    /\ log = <<>>
    /\ pgSources = [i \in PgConfigs |-> NoVal]
    /\ sources = NoVal
    /\ srcDb = None /\ dstDb = None /\ dstBefore = None
    /\ lastOpts = None /\ lastResult = None /\ prevResult = None
    /\ archive = None /\ outcomes = <<>> /\ sampled = <<>>

\* Mbtiles::get_tile(z, x, y)
GetTile(z, x, y) ==
    /\ req' = Some([z |-> z, x |-> x, y |-> y])
    /\ tmsRow' = Some(FlipY(build, z, y))
    /\ backY' = IF FlipY(build, z, y).kind = "row"
                THEN Some(FlipY(build, z, FlipY(build, z, y).v))
                ELSE NoVal
    /\ tileOut' = IF FlipY(build, z, y) = Panic
                  THEN Some("panic")
                  ELSE Some(LookupTile(z, x, FlipY(build, z, y)))
    /\ UNCHANGED <<build, resolveVars, copyVars, metaVars, laterVars, lastVars>>

TileNext == \E z \in RequestZooms : \E y \in RequestRows(z) : GetTile(z, 0, y)

SpecTile == TileInit /\ [][TileNext]_vars

(***************************************************************************)
(* Mbtiles::get_metadata                                                    *)
(***************************************************************************)
\* bound: the number of rows of the tiles table of the archive read
MaxTiles == 2

\* bound: the number of get_metadata calls followed
MaxMetaCalls == 2

\* the upper end of the zoom range read when the metadata has no maxzoom
DefaultMaxZoom == 18

\* rows of the tiles table: zoom_level, tile_column and what the blob is
SampleTiles == [z : {0, 1}, x : {0, 1}, data : {"png", "jpeg", "gzmvt", "empty"}]

\* tile tables: (zoom_level, tile_column) identifies a row
SampleTables ==
    {ts \in SUBSET SampleTiles :
        /\ Cardinality(ts) <= MaxTiles
        /\ \A t1, t2 \in ts : (t1.z = t2.z /\ t1.x = t2.x) => t1 = t2}

\* the archive files read: the tiles, and the minzoom, maxzoom and format
\* rows of the metadata table
Archives ==
    [tiles : SampleTables,
     minzoom : {NoVal, Some(0), Some(1)},
     maxzoom : {NoVal, Some(0)},
     format : {NoVal, Some("png"), Some("pbf"), Some("bogus")}]

TileInfo(format, encoding) == [format |-> format, encoding |-> encoding]

\* TileInfo::detect on a blob: format and encoding by magic bytes, if any
Detect(data) ==
    CASE data \in {"png", "jpeg"} -> Some(TileInfo(data, "identity"))
      [] data = "gzmvt" -> Some(TileInfo("mvt", "gzip"))
      [] OTHER -> NoVal

\* Format::parse on the metadata's format value
FormatParse(fmt) ==
    CASE fmt \in {"png", "jpeg"} -> Some(fmt)
      [] fmt = "pbf" -> Some("mvt")
      [] OTHER -> NoVal

\* TileInfo::from(Format): the format as stored, without transport encoding
FormatInto(fmt) == TileInfo(fmt, "identity")

\* parse_tile: the detection of the row's blob
ParseTile(r) == Detect(r.data)

Ok(info) == [kind |-> "ok", tile_info |-> info]

\* the error with the two detections the other way round
InconsistentMetadataSwapped(old, new) ==
    [kind |-> "err", err |-> "InconsistentMetadata", old |-> new, new |-> old]

InconsistentMetadata(old, new) ==
    [kind |-> "err", err |-> "InconsistentMetadata", old |-> old, new |-> new]

NoTilesFound == [kind |-> "err", err |-> "NoTilesFound"]

\* the metadata's format taken although a tile was detected
MetadataFormatFirst(a, info) ==
    IF a.format # NoVal /\ FormatParse(Get(a.format)) # NoVal
    THEN Some(FormatInto(Get(FormatParse(Get(a.format)))))
    ELSE info

\* match (tile_info, Format::parse(fmt)): the metadata's format stands in
\* when no tile was detected
MetadataFormat(a, info) ==
    IF a.format # NoVal /\ FormatParse(Get(a.format)) # NoVal /\ info = NoVal
    THEN Some(FormatInto(Get(FormatParse(Get(a.format)))))
    ELSE info

\* the end of detect_format, no metadata format looked at
FormatFromTilesOnly(a, info) ==
    IF info # NoVal THEN Ok(Get(info)) ELSE NoTilesFound

\* the end of detect_format: Ok(info), or NoTilesFound
FormatFromMetadata(a, info) ==
    IF MetadataFormat(a, info) # NoVal
    THEN Ok(Get(MetadataFormat(a, info)))
    ELSE NoTilesFound

\* a finished run of detect_format: its result and the rows it sampled
DetectRun(out, seen) == [out |-> out, seen |-> seen]

\* the loop of detect_format from zoom z on, with tile_info, tested_zoom and
\* the rows sampled so far: every run it can make, one row per zoom being
\* whichever the query yields
RECURSIVE CheckZooms(_, _, _, _, _)
CheckZooms(a, z, info, tested, seen) ==
    IF z > (IF a.maxzoom = NoVal THEN DefaultMaxZoom ELSE Get(a.maxzoom))
    THEN {DetectRun(FormatFromMetadata(a, info), seen)}
    ELSE IF z = tested \/ {r \in a.tiles : r.z = z} = {}
    THEN CheckZooms(a, z + 1, info, tested, seen)
    ELSE UNION {
        LET new == ParseTile(r)
            now == Append(seen, r)
        IN  CASE new = NoVal -> CheckZooms(a, z + 1, info, tested, now)
              [] new # NoVal /\ info = NoVal -> CheckZooms(a, z + 1, new, tested, now)
              [] new # NoVal /\ info = new -> CheckZooms(a, z + 1, info, tested, now)
              [] OTHER -> {DetectRun(InconsistentMetadata(Get(info), Get(new)), now)}
        : r \in {r \in a.tiles : r.z = z}}

\* detect_format: the first sample is whichever row with zoom_level >= 0
\* the query yields
DetectFormat(a) ==
    LET lo == IF a.minzoom = NoVal THEN 0 ELSE Get(a.minzoom)
    IN  IF {r \in a.tiles : r.z >= 0} = {}
        THEN CheckZooms(a, lo, NoVal, -1, <<>>)
        ELSE UNION {CheckZooms(a, lo, ParseTile(r), r.z, <<r>>) :
                        r \in {r \in a.tiles : r.z >= 0}}

\* an archive file is open; get_metadata was not called yet
MetaInit ==
    /\ archive \in Archives
    /\ outcomes = <<>> /\ sampled = <<>>
    /\ names = [h \in IdrStates |-> {}]
    /\ lock = NoTask
    /\ tpc = [t \in Tasks |-> "idle"]
    /\ cur = [t \in Tasks |-> [desired |-> None, id |-> None]]
    /\ found = [t \in Tasks |-> {}]
    /\ log = <<>>
    /\ pgSources = [i \in PgConfigs |-> NoVal]
    /\ sources = NoVal
    /\ srcDb = None /\ dstDb = None /\ dstBefore = None
    /\ lastOpts = None /\ lastResult = None /\ prevResult = None
    /\ build = None /\ req = NoVal /\ tmsRow = NoVal /\ backY = NoVal /\ tileOut = NoVal
    /\ proc = NoVal /\ legacy = NoVal /\ pgFinal = NoVal /\ pool = NoVal /\ registry = NoVal
    /\ mbt = NoVal /\ metadata = NoVal /\ mbtSource = NoVal /\ app = NoVal /\ config = NoVal

\* Mbtiles::get_metadata: parse_metadata, then detect_format
GetMetadata ==
    /\ Len(outcomes) < MaxMetaCalls
    /\ \E run \in DetectFormat(archive) :
           /\ outcomes' = Append(outcomes,
                  IF run.out.kind = "ok"
                  THEN [kind |-> "ok", tile_info |-> run.out.tile_info,
                        minzoom |-> archive.minzoom, maxzoom |-> archive.maxzoom]
                  ELSE run.out)
           /\ sampled' = Append(sampled, run.seen)
    /\ UNCHANGED <<archive, resolveVars, copyVars, tileVars, laterVars, lastVars>>

MetaNext == GetMetadata

SpecMeta == MetaInit /\ [][MetaNext]_vars

(***************************************************************************)
(* Mbtiles::detect_type                                                     *)
(***************************************************************************)
Filepaths == {"a.mbtiles", "dir/b.mbtiles", ":memory:"}

\* the tables and views a file can hold; tiles is a table or a view
SchemaObjects == {"metadata", "map", "images", "tiles", "tiles_view"}

Schemas == {sch \in SUBSET SchemaObjects : ~({"tiles", "tiles_view"} \subseteq sch)}

\* detect_type's result: the type, or InvalidDataFormat(self.filepath)
DetectTypeResult(filepath, db) ==
    IF DetectType(db) = "InvalidDataFormat"
    THEN [kind |-> "err", err |-> "InvalidDataFormat", filepath |-> filepath]
    ELSE [kind |-> "ok", type |-> DetectType(db)]

\* a file with some schema is open; detect_type was not called yet
TypeInit ==
    /\ \E p \in Filepaths, sch \in Schemas :
           mbt = [filepath |-> p,
                  db |-> Db(TRUE, sch, TRUE, EmptyBag, EmptyBag, EmptyBag, EmptyBag),
                  type |-> NoVal]
    /\ metadata = NoVal /\ mbtSource = NoVal /\ app = NoVal /\ config = NoVal
    /\ names = [h \in IdrStates |-> {}]
    /\ lock = NoTask
    /\ tpc = [t \in Tasks |-> "idle"]
    /\ cur = [t \in Tasks |-> [desired |-> None, id |-> None]]
    /\ found = [t \in Tasks |-> {}]
    /\ log = <<>>
    /\ pgSources = [i \in PgConfigs |-> NoVal]
    /\ sources = NoVal
    /\ srcDb = None /\ dstDb = None /\ dstBefore = None
    /\ lastOpts = None /\ lastResult = None /\ prevResult = None
    /\ archive = None /\ outcomes = <<>> /\ sampled = <<>>
    /\ build = None /\ req = NoVal /\ tmsRow = NoVal /\ backY = NoVal /\ tileOut = NoVal
    /\ proc = NoVal /\ legacy = NoVal /\ pgFinal = NoVal /\ pool = NoVal /\ registry = NoVal

\* Mbtiles::detect_type
DetectTypeCall ==
    /\ mbt.type = NoVal
    /\ mbt' = [mbt EXCEPT !.type = Some(DetectTypeResult(mbt.filepath, mbt.db))]
    /\ UNCHANGED <<metadata, mbtSource, app, config,
                   resolveVars, copyVars, metaVars, tileVars, lastVars>>

TypeNext == DetectTypeCall

SpecType == TypeInit /\ [][TypeNext]_vars

(***************************************************************************)
(* Mbtiles::parse_metadata and Mbtiles::get_metadata_value                  *)
(***************************************************************************)
\* bound: the number of rows of the metadata table
MaxMetaRows == 2

\* the names of metadata rows; "custom" is a name parse_metadata does not know
MetaNames == {"name", "bounds", "minzoom", "maxzoom", "type", "json", "format", "custom"}

\* the values a row of that name can hold; NoVal is SQL NULL
MetaValues(name) ==
    CASE name = "name" -> {NoVal, Some(""), Some("n1"), Some("n2")}
      [] name = "bounds" -> {Some(""), Some("-1,-1,1,1"), Some("west")}
      [] name = "minzoom" -> {Some(""), Some("1"), Some("abc")}
      [] name = "maxzoom" -> {Some(""), Some("2"), Some("300")}
      [] name = "type" -> {Some(""), Some("overlay"), Some("baselayer")}
      [] name = "json" -> {Some(""), Some("{k}"), Some("{vl,k}"), Some("{badvl,k}"), Some("notjson")}
      [] name = "format" -> {Some(""), Some("png"), Some("pbf")}
      [] OTHER -> {Some(""), Some("c1"), Some("c2")}

MetadataRows == UNION {{[name |-> n, value |-> v] : v \in MetaValues(n)} : n \in MetaNames}

\* the metadata table: its rows in rowid order
RECURSIVE SeqsUpTo(_, _)
SeqsUpTo(S, n) ==
    IF n = 0 THEN {<<>>}
    ELSE SeqsUpTo(S, n - 1) \cup
         {Append(q, x) : q \in {q \in SeqsUpTo(S, n - 1) : Len(q) = n - 1}, x \in S}

MetadataTables == SeqsUpTo(MetadataRows, MaxMetaRows)

\* a Result: Ok(v), or Err for the text that did not parse
ParseOk(v) == [ok |-> TRUE, v |-> v]

ParseErr(text) == [ok |-> FALSE, v |-> text]

\* Bounds::from_str: four comma-separated floats
BoundsFromStr(v) == IF v = "-1,-1,1,1" THEN ParseOk(v) ELSE ParseErr(v)

\* str::parse::<u8>
ParseU8(v) ==
    CASE v = "1" -> ParseOk(1)
      [] v = "2" -> ParseOk(2)
      [] OTHER -> ParseErr(v)

\* serde_json::from_str: an object with or without a vector_layers key
JsonFromStr(v) ==
    CASE v = "{k}" -> ParseOk([vector_layers |-> NoVal, rest |-> "k"])
      [] v = "{vl,k}" -> ParseOk([vector_layers |-> Some("vl"), rest |-> "k"])
      [] v = "{badvl,k}" -> ParseOk([vector_layers |-> Some("badvl"), rest |-> "k"])
      [] OTHER -> ParseErr(v)

\* serde_json::from_value::<Vec<VectorLayer>>
VectorLayersFromValue(v) == IF v = "vl" THEN ParseOk(v) ELSE ParseErr(v)

\* a to_val that keeps the text of a value that did not parse
ToValLossy(res) == Some(res.v)

\* Mbtiles::to_val: Some(v) for Ok(v); a warning and None for Err
ToVal(res) == IF res.ok THEN Some(res.v) ELSE NoVal

\* tilejson! { tiles: vec![] }, no layer_type, no json
EmptyParsed ==
    [tj |-> [name |-> NoVal, bounds |-> NoVal, minzoom |-> NoVal, maxzoom |-> NoVal,
             vector_layers |-> NoVal, other |-> <<>>],
     layer_type |-> NoVal,
     json |-> NoVal]

\* tj.other.insert(name, value)
OtherInsert(other, name, value) ==
    [k \in DOMAIN other \cup {name} |-> IF k = name THEN value ELSE other[k]]

\* the body of the loop over the fetched rows: match name.as_ref()
ParseRow(acc, row) ==
    IF row.value = NoVal
    THEN acc
    ELSE LET value == Get(row.value)
         IN  CASE row.name = "name" -> [acc EXCEPT !.tj.name = Some(value)]
               [] row.name = "bounds" ->
                      [acc EXCEPT !.tj.bounds = ToVal(BoundsFromStr(value))]
               [] row.name = "minzoom" ->
                      [acc EXCEPT !.tj.minzoom = ToVal(ParseU8(value))]
               [] row.name = "maxzoom" ->
                      [acc EXCEPT !.tj.maxzoom = ToVal(ParseU8(value))]
               [] row.name = "type" -> [acc EXCEPT !.layer_type = Some(value)]
               [] row.name = "json" -> [acc EXCEPT !.json = ToVal(JsonFromStr(value))]
               [] OTHER ->
                      [acc EXCEPT !.tj.other = OtherInsert(acc.tj.other, row.name, value)]

RECURSIVE ParseRows(_, _)
ParseRows(acc, rows) ==
    IF rows = <<>> THEN acc ELSE ParseRows(ParseRow(acc, Head(rows)), Tail(rows))

\* after the loop: vector_layers is taken out of the json object
ExtractVectorLayers(acc) ==
    IF acc.json # NoVal /\ Get(acc.json).vector_layers # NoVal
    THEN [acc EXCEPT
              !.json = Some([Get(acc.json) EXCEPT !.vector_layers = NoVal]),
              !.tj.vector_layers =
                  IF VectorLayersFromValue(Get(Get(acc.json).vector_layers)).ok
                  THEN Some(Get(Get(acc.json).vector_layers))
                  ELSE NoVal]
    ELSE acc

NotEmptyValue(row) == row.value # Some("")

\* Mbtiles::parse_metadata over
\* "SELECT name, value FROM metadata WHERE value IS NOT ''"
ParseMetadata(rows) ==
    ExtractVectorLayers(ParseRows(EmptyParsed, SelectSeq(rows, NotEmptyValue)))

\* Mbtiles::get_metadata_value over
\* "SELECT value from metadata where name = ?", fetch_optional
GetMetadataValue(rows, key) ==
    IF \E i \in 1..Len(rows) : rows[i].name = key
    THEN rows[CHOOSE i \in 1..Len(rows) :
                  /\ rows[i].name = key
                  /\ \A j \in 1..(i - 1) : rows[j].name # key].value
    ELSE NoVal

\* a metadata table is there; nothing was read yet
ParseInit ==
    /\ \E rows \in MetadataTables :
           metadata = [rows |-> rows, parsed |-> NoVal, key |-> NoVal, value |-> NoVal]
    /\ mbt = NoVal /\ mbtSource = NoVal /\ app = NoVal /\ config = NoVal
    /\ names = [h \in IdrStates |-> {}]
    /\ lock = NoTask
    /\ tpc = [t \in Tasks |-> "idle"]
    /\ cur = [t \in Tasks |-> [desired |-> None, id |-> None]]
    /\ found = [t \in Tasks |-> {}]
    /\ log = <<>>
    /\ pgSources = [i \in PgConfigs |-> NoVal]
    /\ sources = NoVal
    /\ srcDb = None /\ dstDb = None /\ dstBefore = None
    /\ lastOpts = None /\ lastResult = None /\ prevResult = None
    /\ archive = None /\ outcomes = <<>> /\ sampled = <<>>
    /\ build = None /\ req = NoVal /\ tmsRow = NoVal /\ backY = NoVal /\ tileOut = NoVal
    /\ proc = NoVal /\ legacy = NoVal /\ pgFinal = NoVal /\ pool = NoVal /\ registry = NoVal

\* Mbtiles::get_metadata, its parse_metadata part
ParseMetadataCall ==
    /\ metadata.parsed = NoVal
    /\ metadata' = [metadata EXCEPT !.parsed = Some(ParseMetadata(metadata.rows))]
    /\ UNCHANGED <<mbt, mbtSource, app, config,
                   resolveVars, copyVars, metaVars, tileVars, lastVars>>

\* Mbtiles::get_metadata_value(key)
GetMetadataValueCall(key) ==
    /\ metadata.key = NoVal
    /\ metadata' = [metadata EXCEPT !.key = Some(key),
                                    !.value = GetMetadataValue(metadata.rows, key)]
    /\ UNCHANGED <<mbt, mbtSource, app, config,
                   resolveVars, copyVars, metaVars, tileVars, lastVars>>

ParseNext ==
    \/ ParseMetadataCall
    \/ \E key \in MetaNames \cup {"nonexistent"} : GetMetadataValueCall(key)

SpecParse == ParseInit /\ [][ParseNext]_vars

(***************************************************************************)
(* MbtSource::get_tile over MbtilesPool::get_tile, and the tile response    *)
(***************************************************************************)
\* a Vec<u8>
Bytes(bytes) == [bytes |-> bytes]

\* Vec::new()
EmptyTile == Bytes(<<>>)

\* tile blobs: an explicit empty blob and a non-empty one
Blobs == {EmptyTile, Bytes(<<26, 2>>)}

\* the coordinates stored, rows being TMS rows
StoredCoords == {<<0, 0, 0>>, <<1, 0, 0>>, <<1, 0, 1>>}

\* tiles tables: per coordinate no row, or a row whose tile_data is NULL or
\* a blob
TilesTables ==
    [StoredCoords ->
        {NoVal} \cup {Some([tile_data |-> d]) : d \in {NoVal} \cup {Some(b) : b \in Blobs}}]

\* the XYZ coordinates asked for, inside the pyramid
TileRequests == {xyz \in [z : {0, 1}, x : {0, 1}, y : {0, 1}] : xyz.y < 2^xyz.z}

\* what the environment does to a read: nothing, no connection handed out
\* in time, the file gone when a connection is opened, the query failing
Faults == {"none", "pool", "file", "query"}

\* the sqlx::Error of a fault, as MbtError::SqlError
SqlError(fault) ==
    CASE fault = "pool" -> [kind |-> "err", err |-> "SqlError", cause |-> "PoolTimedOut"]
      [] fault = "file" -> [kind |-> "err", err |-> "SqlError", cause |-> "unable to open database file"]
      [] OTHER -> [kind |-> "err", err |-> "SqlError", cause |-> "query failed"]

\* MbtilesPool::get_tile: acquire, flip the row, query, fetch_optional
PoolGetTile(stored, fault, xyz) ==
    LET row == <<xyz.z, xyz.x, FlipY("release", xyz.z, xyz.y).v>>
    IN  IF fault # "none"
        THEN SqlError(fault)
        ELSE IF row \in StoredCoords /\ stored[row] # NoVal
        THEN [kind |-> "ok", tile |-> Get(stored[row]).tile_data]
        ELSE [kind |-> "ok", tile |-> NoVal]

\* a source that reports a missing tile as an error
SourceGetTileStrict(id, res) ==
    IF res.kind = "err" \/ res.tile = NoVal
    THEN [kind |-> "err", err |-> "AquireConnError", id |-> id]
    ELSE [kind |-> "ok", tile |-> Get(res.tile)]

\* MbtSource::get_tile on the pool's result
SourceGetTile(id, res) ==
    IF res.kind = "err"
    THEN [kind |-> "err", err |-> "AquireConnError", id |-> id]
    ELSE IF res.tile # NoVal
    THEN [kind |-> "ok", tile |-> Get(res.tile)]
    ELSE [kind |-> "ok", tile |-> EmptyTile]

\* the tile endpoint's answer: map_internal_error, or match tile.len()
TileResponse(res) ==
    IF res.kind = "err"
    THEN [status |-> 500, body |-> EmptyTile]
    ELSE IF Len(res.tile.bytes) = 0
    THEN [status |-> 204, body |-> res.tile]
    ELSE [status |-> 200, body |-> res.tile]

\* a source over some archive; no tile was asked for yet
ServeInit ==
    /\ \E stored \in TilesTables :
           mbtSource = [id |-> "world_cities", stored |-> stored, fault |-> NoVal,
                        xyz |-> NoVal, pool |-> NoVal, tile |-> NoVal,
                        response |-> NoVal]
    /\ mbt = NoVal /\ metadata = NoVal /\ app = NoVal /\ config = NoVal
    /\ names = [h \in IdrStates |-> {}]
    /\ lock = NoTask
    /\ tpc = [t \in Tasks |-> "idle"]
    /\ cur = [t \in Tasks |-> [desired |-> None, id |-> None]]
    /\ found = [t \in Tasks |-> {}]
    /\ log = <<>>
    /\ pgSources = [i \in PgConfigs |-> NoVal]
    /\ sources = NoVal
    /\ srcDb = None /\ dstDb = None /\ dstBefore = None
    /\ lastOpts = None /\ lastResult = None /\ prevResult = None
    /\ archive = None /\ outcomes = <<>> /\ sampled = <<>>
    /\ build = None /\ req = NoVal /\ tmsRow = NoVal /\ backY = NoVal /\ tileOut = NoVal
    /\ proc = NoVal /\ legacy = NoVal /\ pgFinal = NoVal /\ pool = NoVal /\ registry = NoVal

\* a tile request served from the source
SourceTileRequest(xyz, fault) ==
    /\ mbtSource' =
           [mbtSource EXCEPT
               !.fault = Some(fault),
               !.xyz = Some(xyz),
               !.pool = Some(PoolGetTile(mbtSource.stored, fault, xyz)),
               !.tile = Some(SourceGetTile(mbtSource.id,
                                 PoolGetTile(mbtSource.stored, fault, xyz))),
               !.response = Some(TileResponse(SourceGetTile(mbtSource.id,
                                 PoolGetTile(mbtSource.stored, fault, xyz))))]
    /\ UNCHANGED <<mbt, metadata, app, config,
                   resolveVars, copyVars, metaVars, tileVars, lastVars>>

ServeNext == \E xyz \in TileRequests, fault \in Faults : SourceTileRequest(xyz, fault)

SpecServe == ServeInit /\ [][ServeNext]_vars

(***************************************************************************)
(* get_composite_source_tile                                                *)
(***************************************************************************)
TableSourceIds == {"points", "lines"}

\* a TableSource, its zoom envelope
TableSourceSet == [minzoom : {NoVal, Some(1), Some(2)}, maxzoom : {NoVal, Some(1), Some(2)}]

\* state.table_sources: None, or the registered table sources by id
TableSourcesStates == {NoVal} \cup {Some(ts) : ts \in [TableSourceIds -> TableSourceSet]}

\* path.source_ids, split at ','
SourceIdLists == {<<"points">>, <<"points", "lines">>, <<"roads">>, <<"lines", "roads">>}

CompositeRequests == [source_ids : SourceIdLists, z : 0..3]

\* what the database actor answers to a GetTile message
DbAnswers ==
    {[kind |-> "ok", tile |-> b] : b \in Blobs}
        \cup {[kind |-> "err", err |-> "db"]}

NotFound(text) == [status |-> 404, body |-> text]

\* the filter of the handler: the source's envelope holds z
InZoomRange(source, z) ==
    /\ source.minzoom = NoVal \/ z >= Get(source.minzoom)
    /\ source.maxzoom = NoVal \/ z <= Get(source.maxzoom)

\* filter_map(table_sources.get) and filter: the positions of the ids kept
KeptSources(tsrc, path) ==
    {i \in 1..Len(path.source_ids) :
        /\ path.source_ids[i] \in DOMAIN tsrc
        /\ InZoomRange(tsrc[path.source_ids[i]], path.z)}

\* get_composite_source_tile: the number of messages sent to the database
\* actor, and the response
CompositeTile(table_sources, path, answer) ==
    IF table_sources = NoVal
    THEN [queries |-> 0, response |-> NotFound("There is no table sources")]
    ELSE IF KeptSources(Get(table_sources), path) = {}
    THEN [queries |-> 0, response |-> NotFound("There is no such table sources")]
    ELSE [queries |-> 1, response |-> TileResponse(answer)]

\* the server is up with some table sources; no request was made yet
CompositeInit ==
    /\ \E ts \in TableSourcesStates :
           app = [table_sources |-> ts, path |-> NoVal, queries |-> 0, response |-> NoVal]
    /\ mbt = NoVal /\ metadata = NoVal /\ mbtSource = NoVal /\ config = NoVal
    /\ names = [h \in IdrStates |-> {}]
    /\ lock = NoTask
    /\ tpc = [t \in Tasks |-> "idle"]
    /\ cur = [t \in Tasks |-> [desired |-> None, id |-> None]]
    /\ found = [t \in Tasks |-> {}]
    /\ log = <<>>
    /\ pgSources = [i \in PgConfigs |-> NoVal]
    /\ sources = NoVal
    /\ srcDb = None /\ dstDb = None /\ dstBefore = None
    /\ lastOpts = None /\ lastResult = None /\ prevResult = None
    /\ archive = None /\ outcomes = <<>> /\ sampled = <<>>
    /\ build = None /\ req = NoVal /\ tmsRow = NoVal /\ backY = NoVal /\ tileOut = NoVal
    /\ proc = NoVal /\ legacy = NoVal /\ pgFinal = NoVal /\ pool = NoVal /\ registry = NoVal

\* a request to the composite tile endpoint
GetCompositeSourceTile(path, answer) ==
    /\ app' = [app EXCEPT
                  !.path = Some(path),
                  !.queries = CompositeTile(app.table_sources, path, answer).queries,
                  !.response = Some(CompositeTile(app.table_sources, path, answer).response)]
    /\ UNCHANGED <<mbt, metadata, mbtSource, config,
                   resolveVars, copyVars, metaVars, tileVars, lastVars>>

CompositeNext ==
    \E path \in CompositeRequests, answer \in DbAnswers :
        GetCompositeSourceTile(path, answer)

SpecComposite == CompositeInit /\ [][CompositeNext]_vars

(***************************************************************************)
(* Config::merge and PgConfig::merge                                        *)
(***************************************************************************)
\* the optional fields of PgConfig (auto_tables, auto_functions, tables and
\* functions are merged like pool_size)
PgConfigValues ==
    [connection_string : {NoVal, Some("postgres://a"), Some("postgres://b")},
     default_srid : {NoVal, Some(4326)},
     pool_size : {NoVal, Some(20)}]

\* a layer of configuration: an srv option, the postgres section, and an
\* unrecognized key
Configs ==
    [srv : [worker_processes : {NoVal, Some(4), Some(8)}],
     postgres : {NoVal} \cup {Some(pg) : pg \in PgConfigValues},
     unrecognized : {NoVal, Some("x"), Some("y")}]

\* set_option: first is replaced only when it is none and second is some
SetOption(first, second) == IF first = NoVal /\ second # NoVal THEN second ELSE first

\* PgConfig::merge
PgConfigMerge(self, other) ==
    [connection_string |-> SetOption(self.connection_string, other.connection_string),
     default_srid |-> SetOption(self.default_srid, other.default_srid),
     pool_size |-> SetOption(self.pool_size, other.pool_size)]

\* SrvConfig::merge
SrvConfigMerge(self, other) ==
    [worker_processes |-> SetOption(self.worker_processes, other.worker_processes)]

\* HashMap::extend for the one key: an incoming entry replaces the old one
UnrecognizedExtend(self, other) == IF other # NoVal THEN other ELSE self

\* Config::merge: self afterwards, or the panic of unimplemented!()
ConfigMerge(self, other) ==
    IF other.postgres # NoVal /\ self.postgres # NoVal
    THEN [kind |-> "panic",
          message |-> "merging multiple postgres configs is not yet supported"]
    ELSE [kind |-> "ok",
          config |->
              [srv |-> SrvConfigMerge(self.srv, other.srv),
               postgres |-> IF other.postgres # NoVal THEN other.postgres
                            ELSE self.postgres,
               unrecognized |-> UnrecognizedExtend(self.unrecognized,
                                                   other.unrecognized)]]

\* two layers are loaded; nothing was merged yet
MergeInit ==
    /\ \E self \in Configs, other \in Configs :
           config = [self |-> self, other |-> other, merged |-> NoVal, pgMerged |-> NoVal]
    /\ mbt = NoVal /\ metadata = NoVal /\ mbtSource = NoVal /\ app = NoVal
    /\ names = [h \in IdrStates |-> {}]
    /\ lock = NoTask
    /\ tpc = [t \in Tasks |-> "idle"]
    /\ cur = [t \in Tasks |-> [desired |-> None, id |-> None]]
    /\ found = [t \in Tasks |-> {}]
    /\ log = <<>>
    /\ pgSources = [i \in PgConfigs |-> NoVal]
    /\ sources = NoVal
    /\ srcDb = None /\ dstDb = None /\ dstBefore = None
    /\ lastOpts = None /\ lastResult = None /\ prevResult = None
    /\ archive = None /\ outcomes = <<>> /\ sampled = <<>>
    /\ build = None /\ req = NoVal /\ tmsRow = NoVal /\ backY = NoVal /\ tileOut = NoVal
    /\ proc = NoVal /\ legacy = NoVal /\ pgFinal = NoVal /\ pool = NoVal /\ registry = NoVal

\* self.merge(other) on the two layers
ConfigMergeCall ==
    /\ config.merged = NoVal
    /\ config' = [config EXCEPT !.merged = Some(ConfigMerge(config.self, config.other))]
    /\ UNCHANGED <<mbt, metadata, mbtSource, app,
                   resolveVars, copyVars, metaVars, tileVars, lastVars>>

\* self.merge(other) on the postgres sections of the two layers
PgConfigMergeCall ==
    /\ config.pgMerged = NoVal
    /\ config.self.postgres # NoVal /\ config.other.postgres # NoVal
    /\ config' = [config EXCEPT
                     !.pgMerged = Some(PgConfigMerge(Get(config.self.postgres),
                                                     Get(config.other.postgres)))]
    /\ UNCHANGED <<mbt, metadata, mbtSource, app,
                   resolveVars, copyVars, metaVars, tileVars, lastVars>>

MergeNext == ConfigMergeCall \/ PgConfigMergeCall

SpecMerge == MergeInit /\ [][MergeNext]_vars

(***************************************************************************)
(* parse_env, start and main of src/bin/main.rs                             *)
(***************************************************************************)
\* the command line: the positional connection, --default-srid, --config
LegacyClis ==
    [connection : {NoVal, Some("postgres://cli")},
     default_srid : {NoVal, Some(1)},
     config : BOOLEAN]

\* the environment: DATABASE_URL and DEFAULT_SRID, as text
LegacyEnvs ==
    [DATABASE_URL : {NoVal, Some("postgres://env")},
     DEFAULT_SRID : {NoVal, Some("2"), Some("abc")}]

\* the config file's settings of the same names
LegacyFiles ==
    [connection_string : {Some("postgres://file")},
     default_srid : {NoVal, Some(3)}]

\* what goes wrong outside the process: nothing, the pool cannot be built,
\* the PostGIS version cannot be read, the PostGIS version is too old
LegacyFaults == {"none", "pool", "postgis_error", "postgis_old"}

\* srid.parse::<i32>().ok()
ParseI32(text) ==
    CASE text = "2" -> Some(2)
      [] OTHER -> NoVal

\* Option::or_else
OrElse(first, second) == IF first # NoVal THEN first ELSE second

\* parse_env: the arguments with gaps filled from the environment
ParseEnv(cli, env) ==
    [connection |-> OrElse(cli.connection, env.DATABASE_URL),
     default_srid |-> OrElse(cli.default_srid,
                             IF env.DEFAULT_SRID = NoVal THEN NoVal
                             ELSE ParseI32(Get(env.DEFAULT_SRID))),
     config |-> cli.config]

\* the outcome of start and main: the config in effect, what was sent to
\* error!(), whether anything reached the terminal, the exit code if the
\* process ended, and whether the server runs
LegacyOutcome(cfg, error, logging, exit, server) ==
    [config |-> cfg, error |-> error, printed |-> error # NoVal /\ logging,
     exit |-> exit, server |-> server]

LegacyFailed(error, logging) == LegacyOutcome(NoVal, Some(error), logging, Some(255), FALSE)

\* main: parse_env, then start: setup_from_config or setup_from_args, the
\* PostGIS check, server::new
LegacyMain(cli, env, file, fault, logging) ==
    LET args == ParseEnv(cli, env)
        cfg == IF args.config
               THEN [connection_string |-> file.connection_string,
                     default_srid |-> file.default_srid]
               ELSE [connection_string |-> args.connection,
                     default_srid |-> args.default_srid]
    IN  IF ~args.config /\ args.connection = NoVal
        THEN LegacyFailed("Database connection string is not set", logging)
        ELSE IF fault = "pool"
        THEN LegacyFailed("Can't setup connection pool", logging)
        ELSE IF fault = "postgis_error"
        THEN LegacyFailed("Can't check PostGIS version", logging)
        ELSE IF fault = "postgis_old"
        THEN LegacyFailed("Martin requires PostGIS >= 2.4.0", logging)
        ELSE LegacyOutcome(Some(cfg), NoVal, logging, NoVal, TRUE)

\* the process is about to run
LegacyInit ==
    /\ \E cli \in LegacyClis, env \in LegacyEnvs, file \in LegacyFiles,
          fault \in LegacyFaults, logging \in BOOLEAN :
           legacy = [cli |-> cli, env |-> env, file |-> file, fault |-> fault,
                     logging |-> logging, outcome |-> NoVal]
    /\ proc = NoVal /\ pgFinal = NoVal /\ pool = NoVal /\ registry = NoVal
    /\ names = [h \in IdrStates |-> {}]
    /\ lock = NoTask
    /\ tpc = [t \in Tasks |-> "idle"]
    /\ cur = [t \in Tasks |-> [desired |-> None, id |-> None]]
    /\ found = [t \in Tasks |-> {}]
    /\ log = <<>>
    /\ pgSources = [i \in PgConfigs |-> NoVal]
    /\ sources = NoVal
    /\ srcDb = None /\ dstDb = None /\ dstBefore = None
    /\ lastOpts = None /\ lastResult = None /\ prevResult = None
    /\ archive = None /\ outcomes = <<>> /\ sampled = <<>>
    /\ build = None /\ req = NoVal /\ tmsRow = NoVal /\ backY = NoVal /\ tileOut = NoVal
    /\ mbt = NoVal /\ metadata = NoVal /\ mbtSource = NoVal /\ app = NoVal /\ config = NoVal

\* main
LegacyRun ==
    /\ legacy.outcome = NoVal
    /\ legacy' = [legacy EXCEPT !.outcome =
                      Some(LegacyMain(legacy.cli, legacy.env, legacy.file,
                                      legacy.fault, legacy.logging))]
    /\ UNCHANGED <<proc, pgFinal, pool, registry,
                   resolveVars, copyVars, metaVars, tileVars, laterVars>>

LegacyNext == LegacyRun

SpecLegacy == LegacyInit /\ [][LegacyNext]_vars

(***************************************************************************)
(* PgConfig::finalize of src/pg/config.rs                                   *)
(***************************************************************************)
\* the ids a tables or a functions mapping may declare
SourceIds == {"t", "u"}

\* a tables or functions field: absent, or a mapping (possibly empty)
Declared == {NoVal} \cup {Some(ids) : ids \in SUBSET SourceIds}

\* a PgConfig as deserialized: run_autodiscovery is skipped by serde and so
\* starts at its default
PgConfigInputs ==
    [connection_string : {NoVal, Some("postgres://a"), Some("postgres://b")},
     default_srid : {NoVal, Some(4326)},
     tables : Declared,
     functions : Declared,
     run_autodiscovery : {FALSE}]

\* PgConfig::finalize with auto-discovery switched off by empty mappings too
PgConfigFinalizeEmptyIsNone(self) ==
    IF self.connection_string = NoVal
    THEN [kind |-> "err", err |-> "NoConnectionString"]
    ELSE [kind |-> "ok",
          config |-> [self EXCEPT
                         !.run_autodiscovery =
                             /\ self.tables \in {NoVal, Some({})}
                             /\ self.functions \in {NoVal, Some({})}]]

\* PgConfig::finalize: NoConnectionString, or the config with
\* run_autodiscovery set
PgConfigFinalize(self) ==
    IF self.connection_string = NoVal
    THEN [kind |-> "err", err |-> "NoConnectionString"]
    ELSE [kind |-> "ok",
          config |-> [self EXCEPT
                         !.run_autodiscovery =
                             self.tables = NoVal /\ self.functions = NoVal]]

\* PgConfig::is_autodetect
IsAutodetect(self) == self.run_autodiscovery

\* a PgConfig was deserialized; finalize was not called yet
FinalizeInit ==
    /\ \E self \in PgConfigInputs : pgFinal = [self |-> self, result |-> NoVal]
    /\ proc = NoVal /\ legacy = NoVal /\ pool = NoVal /\ registry = NoVal
    /\ names = [h \in IdrStates |-> {}]
    /\ lock = NoTask
    /\ tpc = [t \in Tasks |-> "idle"]
    /\ cur = [t \in Tasks |-> [desired |-> None, id |-> None]]
    /\ found = [t \in Tasks |-> {}]
    /\ log = <<>>
    /\ pgSources = [i \in PgConfigs |-> NoVal]
    /\ sources = NoVal
    /\ srcDb = None /\ dstDb = None /\ dstBefore = None
    /\ lastOpts = None /\ lastResult = None /\ prevResult = None
    /\ archive = None /\ outcomes = <<>> /\ sampled = <<>>
    /\ build = None /\ req = NoVal /\ tmsRow = NoVal /\ backY = NoVal /\ tileOut = NoVal
    /\ mbt = NoVal /\ metadata = NoVal /\ mbtSource = NoVal /\ app = NoVal /\ config = NoVal

\* self.finalize()
PgConfigFinalizeCall ==
    /\ pgFinal.result = NoVal
    /\ pgFinal' = [pgFinal EXCEPT !.result = Some(PgConfigFinalize(pgFinal.self))]
    /\ UNCHANGED <<proc, legacy, pool, registry,
                   resolveVars, copyVars, metaVars, tileVars, laterVars>>

FinalizeNext == PgConfigFinalizeCall

SpecFinalize == FinalizeInit /\ [][FinalizeNext]_vars

(***************************************************************************)
(* start, main and on_error of martin/src/bin/main.rs with Config::finalize *)
(* and Config::resolve of src/config.rs                                     *)
(***************************************************************************)
\* the postgres entries a start-up run is tried on
StartPgConfigs ==
    [connection_string : {NoVal, Some("postgres://a")},
     default_srid : {NoVal},
     tables : {NoVal, Some({"t"})},
     functions : {NoVal},
     run_autodiscovery : {FALSE}]

\* OneOrMany<PgConfig>: one entry or two
OneOrManyPg ==
    {<<pg>> : pg \in StartPgConfigs}
        \cup {<<pg1, pg2>> : pg1 \in StartPgConfigs, pg2 \in StartPgConfigs}

\* Config::default()
ConfigDefault == [postgres |-> NoVal]

\* the configs a --config file may hold
StartConfigs == {ConfigDefault} \cup {[postgres |-> Some(pgs)] : pgs \in OneOrManyPg}

\* the command line: --config with the file's content, or the positional
\* connection; and --save-config
StartArgs ==
    [config : {Some(c) : c \in StartConfigs}, connection : {NoVal},
     save_config : {NoVal, Some("-"), Some("saved.yaml")}]
        \cup [config : {NoVal}, connection : {NoVal, Some("postgres://cli")},
              save_config : {NoVal, Some("-"), Some("saved.yaml")}]

\* the step that fails for a reason outside the process, if any
StartFaults == {"none", "read", "merge", "resolve", "write", "server"}

\* the steps of start, in the order of its statements
StartSteps == <<"read", "merge", "finalize", "resolve", "save", "server">>

\* the first entry whose finalize fails, or 0
FirstFailing(pgs) ==
    IF \E i \in 1..Len(pgs) : PgConfigFinalize(pgs[i]).kind = "err"
    THEN CHOOSE i \in 1..Len(pgs) :
             /\ PgConfigFinalize(pgs[i]).kind = "err"
             /\ \A j \in 1..(i - 1) : PgConfigFinalize(pgs[j]).kind = "ok"
    ELSE 0

\* Config::finalize that validates the first postgres entry only
ConfigFinalizeFirstOnly(self) ==
    IF self.postgres = NoVal
    THEN [kind |-> "ok", config |-> self]
    ELSE LET pgs == Get(self.postgres)
         IN  IF PgConfigFinalize(pgs[1]).kind = "err"
             THEN [kind |-> "err", err |-> "PostgresError(NoConnectionString)"]
             ELSE [kind |-> "ok",
                   config |-> [postgres |->
                       Some([i \in 1..Len(pgs) |->
                                IF PgConfigFinalize(pgs[i]).kind = "ok"
                                THEN PgConfigFinalize(pgs[i]).config
                                ELSE pgs[i]])]]

\* Config::finalize: every postgres entry finalized, or the first error
\* wrapped as PostgresError
ConfigFinalize(self) ==
    IF self.postgres = NoVal
    THEN [kind |-> "ok", config |-> self]
    ELSE LET pgs == Get(self.postgres)
         IN  IF FirstFailing(pgs) # 0
             THEN [kind |-> "err", err |-> "PostgresError(NoConnectionString)"]
             ELSE [kind |-> "ok",
                   config |-> [postgres |->
                       Some([i \in 1..Len(pgs) |-> PgConfigFinalize(pgs[i]).config])]]

\* the tables PgBuilder::instantiate_tables reports: the declared ones, and
\* the discovered ones when auto-discovery runs
InstantiateTables(pg) ==
    IF IsAutodetect(pg) THEN {"t", "u"}
    ELSE IF pg.tables = NoVal THEN {} ELSE Get(pg.tables)

\* the functions PgBuilder::instantiate_functions reports
InstantiateFunctions(pg) ==
    IF IsAutodetect(pg) THEN {"f"}
    ELSE IF pg.functions = NoVal THEN {} ELSE Get(pg.functions)

\* PgConfig::resolve: self afterwards
PgConfigResolve(pg) ==
    [pg EXCEPT !.tables = Some(InstantiateTables(pg)),
               !.functions = Some(InstantiateFunctions(pg))]

\* the sources PgConfig::resolve returns for entry i
PgConfigSources(pg, i) ==
    {[pg |-> i, kind |-> "table", id |-> t] : t \in InstantiateTables(pg)}
        \cup {[pg |-> i, kind |-> "function", id |-> f] : f \in InstantiateFunctions(pg)}

\* Config::resolve: the sources of every postgres entry, and self afterwards:
\* the postgres section was taken out of self and is dropped with the
\* resolved entries
ConfigResolveTake(self) ==
    IF self.postgres = NoVal
    THEN [sources |-> {}, config |-> self]
    ELSE LET pgs == Get(self.postgres)
         IN  [sources |-> UNION {PgConfigSources(pgs[i], i) : i \in 1..Len(pgs)},
              config |-> [self EXCEPT !.postgres = NoVal]]

\* serde_yaml::to_string(&config): fields marked skip are left out, and the
\* postgres key is left out when the section is none
ToYaml(cfg) ==
    IF cfg.postgres = NoVal THEN [keys |-> {}]
    ELSE [keys |-> {"postgres"},
          postgres |-> [i \in 1..Len(Get(cfg.postgres)) |->
                           [connection_string |-> Get(cfg.postgres)[i].connection_string,
                            default_srid |-> Get(cfg.postgres)[i].default_srid,
                            tables |-> Get(cfg.postgres)[i].tables,
                            functions |-> Get(cfg.postgres)[i].functions]]]

\* the process is about to run start(Args::parse())
StartInit ==
    /\ \E args \in StartArgs, fault \in StartFaults, logging \in BOOLEAN :
           proc = [args |-> args, fault |-> fault, logging |-> logging,
                   pc |-> "start", config |-> NoVal, merged |-> NoVal,
                   sources |-> NoVal, trace |-> <<>>, saved |-> NoVal,
                   stdout |-> NoVal, error |-> NoVal, printed |-> FALSE,
                   exit |-> NoVal, server |-> FALSE]
    /\ legacy = NoVal /\ pgFinal = NoVal /\ pool = NoVal /\ registry = NoVal
    /\ names = [h \in IdrStates |-> {}]
    /\ lock = NoTask
    /\ tpc = [t \in Tasks |-> "idle"]
    /\ cur = [t \in Tasks |-> [desired |-> None, id |-> None]]
    /\ found = [t \in Tasks |-> {}]
    /\ log = <<>>
    /\ pgSources = [i \in PgConfigs |-> NoVal]
    /\ sources = NoVal
    /\ srcDb = None /\ dstDb = None /\ dstBefore = None
    /\ lastOpts = None /\ lastResult = None /\ prevResult = None
    /\ archive = None /\ outcomes = <<>> /\ sampled = <<>>
    /\ build = None /\ req = NoVal /\ tmsRow = NoVal /\ backY = NoVal /\ tileOut = NoVal
    /\ mbt = NoVal /\ metadata = NoVal /\ mbtSource = NoVal /\ app = NoVal /\ config = NoVal

StartFrame ==
    UNCHANGED <<legacy, pgFinal, pool, registry,
                resolveVars, copyVars, metaVars, tileVars, laterVars>>

\* the ? operator: start returns the error
StartFails(step, err) ==
    proc' = [proc EXCEPT !.pc = "error", !.error = Some(err),
                         !.trace = Append(proc.trace, step)]

\* read_config(cfg_filename, &env)? or Config::default()
StartRead ==
    /\ proc.pc = "start"
    /\ IF proc.args.config # NoVal /\ proc.fault = "read"
       THEN StartFails("read", "ConfigLoadError")
       ELSE proc' = [proc EXCEPT
                        !.pc = "read",
                        !.config = IF proc.args.config # NoVal
                                   THEN proc.args.config
                                   ELSE Some(ConfigDefault),
                        !.trace = Append(proc.trace, "read")]
    /\ StartFrame

\* Args::merge_into_config: without --config the postgres section is built
\* from the command line
MergeIntoConfig(args, cfg) ==
    IF args.config # NoVal THEN cfg
    ELSE [postgres |-> Some(<<[connection_string |-> args.connection,
                               default_srid |-> NoVal,
                               tables |-> NoVal,
                               functions |-> NoVal,
                               run_autodiscovery |-> FALSE]>>)]

\* args.merge_into_config(&mut config, &env)?
StartMerge ==
    /\ proc.pc = "read"
    /\ IF proc.fault = "merge"
       THEN StartFails("merge", "ConfigAndConnectionsError")
       ELSE LET cfg == MergeIntoConfig(proc.args, Get(proc.config))
            IN  proc' = [proc EXCEPT !.pc = "merged",
                                     !.config = Some(cfg),
                                     !.merged = Some(cfg),
                                     !.trace = Append(proc.trace, "merge")]
    /\ StartFrame

\* config.finalize()?
StartFinalize ==
    /\ proc.pc = "merged"
    /\ LET res == ConfigFinalize(Get(proc.config))
       IN  IF res.kind = "err"
           THEN StartFails("finalize", res.err)
           ELSE proc' = [proc EXCEPT !.pc = "finalized",
                                     !.config = Some(res.config),
                                     !.trace = Append(proc.trace, "finalize")]
    /\ StartFrame

\* config.resolve(IdResolver::new(RESERVED_KEYWORDS)).await?
StartResolve ==
    /\ proc.pc = "finalized"
    /\ IF proc.fault = "resolve"
       THEN StartFails("resolve", "PostgresError")
       ELSE LET res == ConfigResolveTake(Get(proc.config))
            IN  proc' = [proc EXCEPT !.pc = "resolved",
                                     !.config = Some(res.config),
                                     !.sources = Some(res.sources),
                                     !.trace = Append(proc.trace, "resolve")]
    /\ StartFrame

\* the --save-config block: print to stdout for "-", else create and write
\* the file
StartSave ==
    /\ proc.pc = "resolved"
    /\ IF proc.args.save_config = NoVal
       THEN proc' = [proc EXCEPT !.pc = "saved",
                                 !.trace = Append(proc.trace, "save")]
       ELSE IF proc.args.save_config = Some("-")
       THEN proc' = [proc EXCEPT !.pc = "saved",
                                 !.stdout = Some(ToYaml(Get(proc.config))),
                                 !.trace = Append(proc.trace, "save")]
       ELSE IF proc.fault = "write"
       THEN StartFails("save", "ConfigWriteError")
       ELSE proc' = [proc EXCEPT !.pc = "saved",
                                 !.saved = Some(ToYaml(Get(proc.config))),
                                 !.trace = Append(proc.trace, "save")]
    /\ StartFrame

\* new_server(config.srv, sources)?
StartServer ==
    /\ proc.pc = "saved"
    /\ IF proc.fault = "server"
       THEN StartFails("server", "BindingError")
       ELSE proc' = [proc EXCEPT !.pc = "running", !.server = TRUE,
                                 !.trace = Append(proc.trace, "server")]
    /\ StartFrame

\* on_error: error!() when the logger takes errors, eprintln!() otherwise,
\* then exit(1)
OnError ==
    /\ proc.pc = "error"
    /\ proc' = [proc EXCEPT !.pc = "exited", !.printed = TRUE, !.exit = Some(1)]
    /\ StartFrame

StartNext ==
    \/ StartRead
    \/ StartMerge
    \/ StartFinalize
    \/ StartResolve
    \/ StartSave
    \/ StartServer
    \/ OnError

SpecStart == StartInit /\ [][StartNext]_vars

\* the process is scheduled until it serves or exits
SpecStartFair == SpecStart /\ WF_vars(StartNext)

(***************************************************************************)
(* the source lists of AppState and the index handlers of src/server.rs     *)
(***************************************************************************)
\* requests served per run
MaxRequests == 3

\* table and function ids of the database and of the config
TableIds == {"t", "u"}
FunctionIds == {"f"}

\* Option<TableSources>, Option<FunctionSources>
TableSourcesOptions == {NoVal} \cup {Some(ids) : ids \in SUBSET TableIds}
FunctionSourcesOptions == {NoVal} \cup {Some(ids) : ids \in SUBSET FunctionIds}

\* create_state: the lists of the config behind Rc<RefCell<..>>, shared with
\* the worker actor; watch_mode from config.watch.  db is what a scan of the
\* database finds while the server runs.
RegistryInit ==
    /\ \E watch \in BOOLEAN, ts \in TableSourcesOptions, fs \in FunctionSourcesOptions,
          dt \in SUBSET TableIds, df \in SUBSET FunctionIds :
           registry = [watch_mode |-> watch,
                       table_sources |-> ts, function_sources |-> fs,
                       started |-> [table_sources |-> ts, function_sources |-> fs],
                       db |-> [tables |-> dt, functions |-> df],
                       mailbox |-> <<>>, response |-> NoVal, served |-> 0]
    /\ proc = NoVal /\ legacy = NoVal /\ pgFinal = NoVal /\ pool = NoVal
    /\ names = [h \in IdrStates |-> {}]
    /\ lock = NoTask
    /\ tpc = [t \in Tasks |-> "idle"]
    /\ cur = [t \in Tasks |-> [desired |-> None, id |-> None]]
    /\ found = [t \in Tasks |-> {}]
    /\ log = <<>>
    /\ pgSources = [i \in PgConfigs |-> NoVal]
    /\ sources = NoVal
    /\ srcDb = None /\ dstDb = None /\ dstBefore = None
    /\ lastOpts = None /\ lastResult = None /\ prevResult = None
    /\ archive = None /\ outcomes = <<>> /\ sampled = <<>>
    /\ build = None /\ req = NoVal /\ tmsRow = NoVal /\ backY = NoVal /\ tileOut = NoVal
    /\ mbt = NoVal /\ metadata = NoVal /\ mbtSource = NoVal /\ app = NoVal /\ config = NoVal

RegistryFrame ==
    UNCHANGED <<proc, legacy, pgFinal, pool,
                resolveVars, copyVars, metaVars, tileVars, laterVars>>

\* get_table_sources: the current list, or in watch mode a scan of the
\* database that is also sent to the coordinator as RefreshTableSources
GetTableSources ==
    /\ registry.served < MaxRequests
    /\ IF ~registry.watch_mode
       THEN registry' = [registry EXCEPT
                            !.response = Some([status |-> 200,
                                               body |-> registry.table_sources]),
                            !.served = @ + 1]
       ELSE registry' = [registry EXCEPT
                            !.mailbox = Append(@, [kind |-> "RefreshTableSources",
                                                   sources |-> Some(registry.db.tables)]),
                            !.response = Some([status |-> 200,
                                               body |-> Some(registry.db.tables)]),
                            !.served = @ + 1]
    /\ RegistryFrame

\* get_function_sources: the same for function sources
GetFunctionSources ==
    /\ registry.served < MaxRequests
    /\ IF ~registry.watch_mode
       THEN registry' = [registry EXCEPT
                            !.response = Some([status |-> 200,
                                               body |-> registry.function_sources]),
                            !.served = @ + 1]
       ELSE registry' = [registry EXCEPT
                            !.mailbox = Append(@, [kind |-> "RefreshFunctionSources",
                                                   sources |-> Some(registry.db.functions)]),
                            !.response = Some([status |-> 200,
                                               body |-> Some(registry.db.functions)]),
                            !.served = @ + 1]
    /\ RegistryFrame

\* get_composite_source: reads the table sources, 404 when none is listed
GetCompositeSource(ids) ==
    /\ registry.served < MaxRequests
    /\ registry' = [registry EXCEPT
                       !.response =
                           IF registry.table_sources = NoVal
                              \/ ids \cap Get(registry.table_sources) = {}
                           THEN Some([status |-> 404, body |-> NoVal])
                           ELSE Some([status |-> 200,
                                      body |-> Some(ids \cap Get(registry.table_sources))]),
                       !.served = @ + 1]
    /\ RegistryFrame

\* the coordinator forwards a refresh message to the worker actor, which
\* replaces the shared list
WorkerRefresh ==
    /\ registry.mailbox # <<>>
    /\ LET msg == Head(registry.mailbox)
       IN  registry' = [registry EXCEPT
                           !.mailbox = Tail(@),
                           !.table_sources =
                               IF msg.kind = "RefreshTableSources" THEN msg.sources ELSE @,
                           !.function_sources =
                               IF msg.kind = "RefreshFunctionSources" THEN msg.sources ELSE @]
    /\ RegistryFrame

RegistryNext ==
    \/ GetTableSources
    \/ GetFunctionSources
    \/ \E ids \in (SUBSET TableIds) \ {{}} : GetCompositeSource(ids)
    \/ WorkerRefresh

SpecRegistry == RegistryInit /\ [][RegistryNext]_vars

(***************************************************************************)
(* the connection pool of Mbtiles under concurrent get_tile and            *)
(* get_metadata (martin-mbtiles/src/lib.rs)                                 *)
(***************************************************************************)
\* concurrent callers of one Mbtiles, and the pool's connection limit
MaxCallers == 3
MaxConnections == 2

Callers == 1..MaxCallers

\* how a call ends
CallOutcomes == {"found", "absent", "error"}

\* dropping conn hands the connection back, whatever the call returns
Release(p, c) ==
    [p EXCEPT !.holds[c] = 0, !.inUse = @ - p.holds[c]]

\* a return that keeps the connection when the call ends in an error
ReturnLeakOnError(p, c, outcome) ==
    IF outcome = "error"
    THEN [p EXCEPT !.pc[c] = "idle", !.last = Some(outcome)]
    ELSE [Release(p, c) EXCEPT !.pc[c] = "idle", !.last = Some(outcome)]

\* the call of caller c returns outcome: conn goes out of scope
Return(p, c, outcome) ==
    [Release(p, c) EXCEPT !.pc[c] = "idle", !.last = Some(outcome)]

\* Mbtiles::new built the pool; no call is in progress
PoolInit ==
    /\ pool = [pc |-> [c \in Callers |-> "idle"],
               holds |-> [c \in Callers |-> 0],
               inUse |-> 0, queue |-> <<>>, last |-> NoVal]
    /\ proc = NoVal /\ legacy = NoVal /\ pgFinal = NoVal /\ registry = NoVal
    /\ names = [h \in IdrStates |-> {}]
    /\ lock = NoTask
    /\ tpc = [t \in Tasks |-> "idle"]
    /\ cur = [t \in Tasks |-> [desired |-> None, id |-> None]]
    /\ found = [t \in Tasks |-> {}]
    /\ log = <<>>
    /\ pgSources = [i \in PgConfigs |-> NoVal]
    /\ sources = NoVal
    /\ srcDb = None /\ dstDb = None /\ dstBefore = None
    /\ lastOpts = None /\ lastResult = None /\ prevResult = None
    /\ archive = None /\ outcomes = <<>> /\ sampled = <<>>
    /\ build = None /\ req = NoVal /\ tmsRow = NoVal /\ backY = NoVal /\ tileOut = NoVal
    /\ mbt = NoVal /\ metadata = NoVal /\ mbtSource = NoVal /\ app = NoVal /\ config = NoVal

PoolFrame ==
    UNCHANGED <<proc, legacy, pgFinal, registry,
                resolveVars, copyVars, metaVars, tileVars, laterVars>>

\* get_tile or get_metadata is called: self.pool.acquire() is awaited
CallAcquire(c, call) ==
    /\ pool.pc[c] = "idle"
    /\ pool' = [pool EXCEPT !.pc[c] = call, !.queue = Append(@, c)]
    /\ PoolFrame

\* acquire() resolves for the longest-waiting caller when a connection is
\* free
Acquired(c) ==
    /\ pool.queue # <<>>
    /\ Head(pool.queue) = c
    /\ pool.inUse < MaxConnections
    /\ pool' = [pool EXCEPT
                   !.queue = Tail(@),
                   !.holds[c] = @ + 1,
                   !.inUse = @ + 1,
                   !.pc[c] = IF pool.pc[c] = "get_tile" THEN "fetch" ELSE "parse"]
    /\ PoolFrame

\* acquire() gives up with an error: the call returns through the ? operator
\* without ever holding a connection
AcquireFails(c) ==
    /\ pool.pc[c] \in {"get_tile", "get_metadata"}
    /\ pool' = [Return(pool, c, "error") EXCEPT
                   !.queue = SelectSeq(@, LAMBDA w : w # c)]
    /\ PoolFrame

\* get_tile: fetch_optional, then return the tile, None, or the error
FetchTile(c, outcome) ==
    /\ pool.pc[c] = "fetch"
    /\ pool' = Return(pool, c, outcome)
    /\ PoolFrame

\* get_metadata: parse_metadata(&mut conn): an error returns, success goes
\* on to detect_format with the same connection
ParseStep(c, ok) ==
    /\ pool.pc[c] = "parse"
    /\ pool' = IF ok THEN [pool EXCEPT !.pc[c] = "detect"]
               ELSE Return(pool, c, "error")
    /\ PoolFrame

\* get_metadata: detect_format(&tj, &mut conn), then return
DetectStep(c, outcome) ==
    /\ pool.pc[c] = "detect"
    /\ pool' = Return(pool, c, outcome)
    /\ PoolFrame

PoolNext ==
    \/ \E c \in Callers, call \in {"get_tile", "get_metadata"} : CallAcquire(c, call)
    \/ \E c \in Callers : Acquired(c)
    \/ \E c \in Callers : AcquireFails(c)
    \/ \E c \in Callers, outcome \in CallOutcomes : FetchTile(c, outcome)
    \/ \E c \in Callers, ok \in BOOLEAN : ParseStep(c, ok)
    \/ \E c \in Callers, outcome \in {"found", "error"} : DetectStep(c, outcome)

SpecPool == PoolInit /\ [][PoolNext]_vars

\* every query of a call that holds a connection completes, and the pool
\* hands a free connection to the longest-waiting caller
SpecPoolFair ==
    /\ SpecPool
    /\ \A c \in Callers :
           /\ WF_vars(Acquired(c))
           /\ WF_vars(\E outcome \in CallOutcomes : FetchTile(c, outcome))
           /\ WF_vars(\E ok \in BOOLEAN : ParseStep(c, ok))
           /\ WF_vars(\E outcome \in {"found", "error"} : DetectStep(c, outcome))

\* rows of the tiles view of a deduplicated archive: map JOIN images
TilesView(db) ==
    [p \in {q \in (DOMAIN db.map) \X (DOMAIN db.images) : q[1].id = q[2].id} |->
        db.map[p[1]] * db.images[p[2]]]

\* "SELECT COUNT(*) FROM tiles", on the table or on the view
TilesCount(db) ==
    IF "tiles" \in db.schema
    THEN BagCardinality(db.tiles)
    ELSE BagCardinality(TilesView(db))

(***************************************************************************)
(* Claims about the ID resolver                                             *)
(***************************************************************************)
\* the resolve calls task t has finished
CallsOf(t) == {n \in 1..Len(log) : log[n].task = t}

\* C1: for any sequence of resolve calls (repeated, distinct and reserved
\* desired names) the returned IDs are pairwise distinct, so the merge of the
\* per-backend source maps in Config::resolve keeps every source.
C1_ResolveInjective ==
    /\ \A i, j \in 1..Len(log) : i # j => log[i].ret # log[j].ret
    /\ sources # NoVal =>
          /\ Cardinality(Get(sources)) = Len(log)
          /\ {p[2] : p \in Get(sources)} =
                {tn \in Tasks \X (1..MaxCalls) : tn[2] <= Cardinality(CallsOf(tn[1]))}

\* witness of C1: start-up is over, and two postgres configs asked for the
\* same name while a third call asked for a reserved one
C1_Witness ==
    /\ sources # NoVal
    /\ Len(log) = 3
    /\ \E i, j, k \in 1..Len(log) :
          /\ log[i].desired = log[j].desired
          /\ log[i].task[1] # log[j].task[1]
          /\ log[k].desired \in RESERVED_KEYWORDS

\* C2: whatever the interleaving of the discovery tasks (one pair per
\* postgres config) resolving on clones of one resolver, no two calls get
\* the same string: the maps of two tasks share no ID, no task lost a
\* source to a repeated ID, and an ID chosen under the mutex is new.
C2_ConcurrentDistinct ==
    /\ \A t, u \in Tasks : t # u => Keys(found[t]) \cap Keys(found[u]) = {}
    /\ \A t \in Tasks : Cardinality(found[t]) = Cardinality(CallsOf(t))
    /\ \A t, u \in Tasks : tpc[t] = "chosen" => cur[t].id \notin Keys(found[u])

\* witness of C2: three tasks, of both postgres configs, interleaved their
\* calls for the same name while a finished task's result was already in
C2_Witness ==
    /\ Len(log) = 3
    /\ \A n \in 1..3 : log[n].desired = "a"
    /\ log[1].task[1] # log[2].task[1]
    /\ log[3].task[1] = log[1].task[1]
    /\ log[3].task # log[1].task
    /\ tpc[log[2].task] = "done"

\* C3: resolve(desired) returns desired exactly when it is unclaimed and not
\* reserved, and desired.k for the least k >= 1 with desired.k unclaimed
\* otherwise; three calls resolve("a") give "a", "a.1", "a.2"; a reserved
\* name is never returned.
C3_ResolveValue ==
    /\ \A n \in 1..Len(log) :
          LET e == log[n]
              free == e.desired \notin e.before /\ e.desired \notin RESERVED_KEYWORDS
          IN /\ (e.ret = e.desired) <=> free
             /\ ~free => \E k \in 1..n :
                            /\ e.ret = Suffixed(e.desired, k)
                            /\ e.ret \notin e.before
                            /\ \A j \in 1..(k - 1) : Suffixed(e.desired, j) \in e.before
             /\ e.ret \notin RESERVED_KEYWORDS
    /\ (Len(log) >= 3 /\ \A n \in 1..3 : log[n].desired = "a") =>
          <<log[1].ret, log[2].ret, log[3].ret>> = <<"a", "a.1", "a.2">>

\* witness of C3: a reserved name, a free name and a claimed name were
\* resolved, the claimed one needing the suffix 2
C3_Witness ==
    /\ Len(log) = 3
    /\ log[1].desired = "a.1" /\ log[1].ret = "a.1"
    /\ log[2].desired = "a" /\ log[2].ret = "a"
    /\ log[3].desired = "a" /\ log[3].ret = "a.2"

\* a second reachable case of C3: the reserved name comes back suffixed
C3_WitnessReserved ==
    \E n \in 1..Len(log) : log[n].desired = "health" /\ log[n].ret = "health.1"

(***************************************************************************)
(* Claims about the copier                                                  *)
(***************************************************************************)
NoFilter(o) == o.zooms = {} /\ o.min_zoom = NoVal /\ o.max_zoom = NoVal

\* the zoom predicate as the specification lists it, by strict precedence
ListedPredicate(o, z) ==
    CASE o.zooms # {} -> z \in o.zooms
      [] o.zooms = {} /\ o.min_zoom # NoVal /\ o.max_zoom # NoVal ->
            Get(o.min_zoom) <= z /\ z <= Get(o.max_zoom)
      [] o.zooms = {} /\ o.min_zoom # NoVal /\ o.max_zoom = NoVal ->
            z >= Get(o.min_zoom)
      [] o.zooms = {} /\ o.min_zoom = NoVal /\ o.max_zoom # NoVal ->
            z <= Get(o.max_zoom)
      [] OTHER -> TRUE

\* C4: after a successful run with no zoom filter into an empty destination,
\* count(tiles) of the destination equals count(tiles) of the source, for
\* both shapes, also when several map rows share a tile_id. (Stated for
\* sources whose images table is declared (tile_data, tile_id), the order
\* the copier's SELECT lists.)
C4_CopyAllCount ==
    (/\ lastResult = "Ok"
     /\ NoFilter(lastOpts)
     /\ dstBefore.schema = {}
     /\ srcDb.dataFirst)
    => TilesCount(dstDb) = TilesCount(srcDb)

\* C5: after a successful copy with min_zoom = a, max_zoom = b and no zooms
\* set, every row of tiles (DirectTiles) and every row of map (Deduplicated)
\* in the destination has a <= zoom_level <= b. (Stated for a <= b.)
C5_ZoomRange ==
    (/\ lastResult = "Ok"
     /\ lastOpts.zooms = {}
     /\ lastOpts.min_zoom # NoVal
     /\ lastOpts.max_zoom # NoVal
     /\ Get(lastOpts.min_zoom) <= Get(lastOpts.max_zoom))
    => /\ \A t \in DOMAIN dstDb.tiles :
             Get(lastOpts.min_zoom) <= t.z /\ t.z <= Get(lastOpts.max_zoom)
       /\ \A m \in DOMAIN dstDb.map :
             Get(lastOpts.min_zoom) <= m.z /\ m.z <= Get(lastOpts.max_zoom)

\* C6: after a successful copy of a Deduplicated archive with any zoom
\* filter, the destination's map holds exactly the source map rows that pass
\* the zoom predicate, and its images holds exactly, and once each, the
\* source images rows referenced by a surviving map row. (Stated for
\* sources whose images table is declared (tile_data, tile_id).)
C6_DedupExact ==
    (/\ lastResult = "Ok"
     /\ DetectType(srcDb) = "DeDuplicated"
     /\ srcDb.dataFirst)
    => LET surviving == {m \in BagToSet(srcDb.map) : ZoomPredicate(lastOpts, m.z)}
       IN /\ dstDb.map = SetToBag(surviving)
          /\ dstDb.images =
                SetToBag({i \in BagToSet(srcDb.images) : \E m \in surviving : m.id = i.id})

\* C7: the rows the filtered INSERT writes are those the listed precedence
\* selects: zooms if non-empty (bounds ignored), else both bounds, else
\* min_zoom alone, else max_zoom alone, else every row.
C7_Precedence ==
    lastResult = "Ok" =>
        IF DetectType(srcDb) = "TileTables"
        THEN BagToSet(dstDb.tiles) =
                {t \in BagToSet(srcDb.tiles) : ListedPredicate(lastOpts, t.z)}
        ELSE BagToSet(dstDb.images) =
                {StoredImage(srcDb, i) : i \in
                    {j \in BagToSet(srcDb.images) :
                        \E m \in BagToSet(srcDb.map) :
                            m.id = j.id /\ ListedPredicate(lastOpts, m.z)}}

\* witness of C7: zooms, min_zoom and max_zoom were all given, the source
\* had a tile inside the bounds and one in the set, and the set won
C7_Witness ==
    /\ lastResult = "Ok"
    /\ lastOpts = [zooms |-> {0, 2}, min_zoom |-> Some(1), max_zoom |-> Some(1)]
    /\ DetectType(srcDb) = "TileTables"
    /\ {t.z : t \in BagToSet(srcDb.tiles)} = {0, 1}
    /\ {t.z : t \in BagToSet(dstDb.tiles)} = {0}

\* C8 as stated: a run into a destination that already holds a schema object
\* fails with NonEmptyTargetFile and leaves the destination unchanged.
C8_AsStated ==
    (lastResult # None /\ dstBefore.schema # {})
    => lastResult = "NonEmptyTargetFile" /\ dstDb = dstBefore

\* C8, amended: a run into a destination that already holds a schema object
\* leaves the destination unchanged, and fails with NonEmptyTargetFile when
\* the source opens and has a recognised shape (otherwise it has failed on
\* the source before); after a successful copy, the next run into the same
\* destination fails with NonEmptyTargetFile.
C8_NonEmptyTarget ==
    /\ (lastResult # None /\ dstBefore.schema # {})
       => /\ dstDb = dstBefore
          /\ (srcDb.exists /\ DetectType(srcDb) # "InvalidDataFormat")
                => lastResult = "NonEmptyTargetFile"
    /\ prevResult = "Ok"
       => lastResult = "NonEmptyTargetFile" /\ dstDb = dstBefore

\* witness of C8: a copy succeeded and the next run was refused
C8_Witness ==
    /\ prevResult = "Ok"
    /\ lastResult = "NonEmptyTargetFile"
    /\ dstDb = dstBefore
    /\ TilesCount(dstDb) > 0

(***************************************************************************)
(* Claims about get_tile                                                    *)
(***************************************************************************)
\* C9: for 0 <= z <= 22 and 0 <= y < 2^z the row conversion of get_tile,
\* y -> (1 << z) - 1 - y, gives a row in 0..2^z - 1 and, applied to that
\* row again, gives y back.
C9_FlipInvolution ==
    (/\ req # NoVal
     /\ Get(req).z <= MaxZ
     /\ Get(req).y < 2^(Get(req).z))
    => /\ Get(tmsRow).kind = "row"
       /\ 0 <= Get(tmsRow).v /\ Get(tmsRow).v <= 2^(Get(req).z) - 1
       /\ backY = Some(Row(Get(req).y))

\* witness of C9: the top row of the deepest level was asked for and the
\* bottom row was read
C9_Witness ==
    /\ req = Some([z |-> MaxZ, x |-> 0, y |-> 0])
    /\ tmsRow = Some(Row(2^MaxZ - 1))
    /\ backY = Some(Row(0))

(***************************************************************************)
(* Claims about get_metadata                                                *)
(***************************************************************************)
\* C10: for a fixed archive file, two calls of get_metadata give equal
\* outcomes (the same Metadata or the same error), whichever rows the
\* unordered LIMIT 1 queries yield.
C10_MetadataPure ==
    Len(outcomes) >= 2 => outcomes[1] = outcomes[2]

\* the sampled rows of call n whose blob is detectable, by position
Detectable(n) == {i \in 1..Len(sampled[n]) : Detect(sampled[n][i].data) # NoVal}

DetectedAt(n, i) == Get(Detect(sampled[n][i].data))

\* C11: if two tiles sampled by a call (the first sample, then one per zoom
\* in ascending z) are both detectable and their TileInfo differ, the call
\* fails with InconsistentMetadata(old, new), old being the earlier
\* detection; so a call that succeeds returns the TileInfo of every
\* detectable tile it sampled.
C11_Inconsistent ==
    \A n \in 1..Len(outcomes) :
        /\ (\E i, j \in Detectable(n) : i < j /\ DetectedAt(n, i) # DetectedAt(n, j))
           => \E i, j \in Detectable(n) :
                  /\ i < j
                  /\ outcomes[n] = [kind |-> "err", err |-> "InconsistentMetadata",
                                    old |-> DetectedAt(n, i), new |-> DetectedAt(n, j)]
        /\ outcomes[n].kind = "ok"
           => \A i \in Detectable(n) : DetectedAt(n, i) = outcomes[n].tile_info

\* witness of C11: a call sampled a PNG tile and then a gzipped MVT tile of
\* another zoom, and failed
C11_Witness ==
    /\ Len(outcomes) >= 1
    /\ Len(sampled[1]) = 2
    /\ sampled[1][1].data = "png" /\ sampled[1][2].data = "gzmvt"
    /\ sampled[1][1].z # sampled[1][2].z
    /\ outcomes[1].kind = "err"

\* a call sampled two agreeing tiles and succeeded
C11_WitnessOk ==
    /\ Len(outcomes) >= 1
    /\ Len(sampled[1]) = 2
    /\ Detectable(1) = {1, 2}
    /\ outcomes[1].kind = "ok"

\* the metadata's format value parses
FormatParseable(a) == a.format # NoVal /\ FormatParse(Get(a.format)) # NoVal

\* C12 as stated: if the archive has no tile at any zoom level,
\* get_metadata fails with NoTilesFound.
C12_AsStated ==
    \A n \in 1..Len(outcomes) :
        archive.tiles = {}
        => outcomes[n] = [kind |-> "err", err |-> "NoTilesFound"]

\* C12: if the archive has no tile at any zoom level, get_metadata fails
\* with NoTilesFound when the metadata has no parseable format value, and
\* succeeds with that format, no tile having been sampled, when it has one.
C12_NoTilesFound ==
    \A n \in 1..Len(outcomes) :
        archive.tiles = {}
        => /\ sampled[n] = <<>>
           /\ ~FormatParseable(archive)
              => outcomes[n] = [kind |-> "err", err |-> "NoTilesFound"]
           /\ FormatParseable(archive)
              => /\ outcomes[n].kind = "ok"
                 /\ outcomes[n].tile_info =
                        [format |-> Get(FormatParse(Get(archive.format))),
                         encoding |-> "identity"]

\* witness of C12: an archive with no tiles and an unknown format value was
\* read: NoTilesFound
C12_Witness ==
    /\ archive.tiles = {}
    /\ archive.format = Some("bogus")
    /\ Len(outcomes) >= 1
    /\ outcomes[1] = [kind |-> "err", err |-> "NoTilesFound"]

\* an archive with no tiles and format png was read: Ok
C12_WitnessFormat ==
    /\ archive.tiles = {}
    /\ archive.format = Some("png")
    /\ Len(outcomes) >= 1
    /\ outcomes[1].kind = "ok"

\* C13: the metadata's format value never overrides a detection: a call
\* that sampled a detectable tile and succeeds returns the detected
\* TileInfo, format and encoding, whatever the metadata's format says; the
\* metadata's format is returned only when it parses and no sampled tile was
\* detectable.
C13_DetectionWins ==
    \A n \in 1..Len(outcomes) :
        outcomes[n].kind = "ok"
        => /\ Detectable(n) # {}
              => \E i \in Detectable(n) : outcomes[n].tile_info = DetectedAt(n, i)
           /\ Detectable(n) = {}
              => /\ FormatParseable(archive)
                 /\ outcomes[n].tile_info =
                        [format |-> Get(FormatParse(Get(archive.format))),
                         encoding |-> "identity"]

\* witness of C13: the metadata says png, the only tile is gzipped MVT, and
\* the call returned mvt with gzip encoding
C13_Witness ==
    /\ archive.format = Some("png")
    /\ Len(outcomes) >= 1
    /\ Len(sampled[1]) = 1 /\ sampled[1][1].data = "gzmvt"
    /\ outcomes[1].kind = "ok"
    /\ outcomes[1].tile_info = [format |-> "mvt", encoding |-> "gzip"]

\* the metadata says pbf, the only tile is an empty blob, and the call
\* returned mvt from the metadata
C13_WitnessMetadata ==
    /\ archive.format = Some("pbf")
    /\ Len(outcomes) >= 1
    /\ Len(sampled[1]) = 1 /\ sampled[1][1].data = "empty"
    /\ outcomes[1].kind = "ok"
    /\ outcomes[1].tile_info = [format |-> "mvt", encoding |-> "identity"]

(***************************************************************************)
(* Claims about detect_type                                                 *)
(***************************************************************************)
HasMapAndImages == {"map", "images"} \subseteq mbt.db.schema

HasTiles == "tiles" \in mbt.db.schema \/ "tiles_view" \in mbt.db.schema

\* C14 as stated: detect_type returns Deduplicated whenever map and images
\* exist, even beside a tiles table or view; TileTables when only tiles
\* exists; and fails with InvalidDataFormat(filepath) in every other case.
C14_AsStated ==
    mbt.type # NoVal
    => Get(mbt.type) =
           IF HasMapAndImages
           THEN [kind |-> "ok", type |-> "DeDuplicated"]
           ELSE IF HasTiles /\ "map" \notin mbt.db.schema /\ "images" \notin mbt.db.schema
           THEN [kind |-> "ok", type |-> "TileTables"]
           ELSE [kind |-> "err", err |-> "InvalidDataFormat", filepath |-> mbt.filepath]

\* C14: detect_type returns Deduplicated whenever map and images exist, even
\* beside a tiles table or view; TileTables when tiles exists and map and
\* images do not both exist; and fails with InvalidDataFormat(filepath) in
\* every other case, the empty database included.
C14_DetectType ==
    mbt.type # NoVal
    => Get(mbt.type) =
           IF HasMapAndImages
           THEN [kind |-> "ok", type |-> "DeDuplicated"]
           ELSE IF HasTiles
           THEN [kind |-> "ok", type |-> "TileTables"]
           ELSE [kind |-> "err", err |-> "InvalidDataFormat", filepath |-> mbt.filepath]

\* witness of C14: map, images and the tiles view exist, and the type
\* detected is DeDuplicated
C14_Witness ==
    /\ mbt.db.schema = {"metadata", "map", "images", "tiles_view"}
    /\ mbt.type = Some([kind |-> "ok", type |-> "DeDuplicated"])

\* the empty in-memory database: InvalidDataFormat with its path
C14_WitnessEmpty ==
    /\ mbt.db.schema = {}
    /\ mbt.type = Some([kind |-> "err", err |-> "InvalidDataFormat",
                        filepath |-> ":memory:"])

(***************************************************************************)
(* Claims about the metadata table's readers                                *)
(***************************************************************************)
\* the rows of a name that a read may report: value neither NULL nor empty
Reported(rows, name) ==
    {i \in 1..Len(rows) :
        rows[i].name = name /\ rows[i].value # NoVal /\ rows[i].value # Some("")}

\* the value of the last such row, if there is one
LastValue(rows, name) ==
    IF Reported(rows, name) = {}
    THEN NoVal
    ELSE rows[CHOOSE i \in Reported(rows, name) :
                  \A j \in Reported(rows, name) : j <= i].value

\* what parse_metadata reports for the names it stores as text
ParsedText(parsed, name) ==
    CASE name = "name" -> parsed.tj.name
      [] name = "type" -> parsed.layer_type
      [] OTHER -> IF name \in DOMAIN parsed.tj.other
                  THEN Some(parsed.tj.other[name])
                  ELSE NoVal

\* parse_metadata ignores rows with an empty value and reports the last
\* row of a name
ParsedLastWins ==
    metadata.parsed # NoVal
    => \A name \in {"name", "type", "format", "custom"} :
           ParsedText(Get(metadata.parsed), name) = LastValue(metadata.rows, name)

\* C15: on every read of the metadata table, by get_metadata and by
\* get_metadata_value alike, rows with an empty value are ignored and of
\* several rows with one name the last one's value is reported;
\* get_metadata_value returns none for a name with no row.
C15_LastWins ==
    /\ ParsedLastWins
    /\ metadata.key # NoVal
       => metadata.value = LastValue(metadata.rows, Get(metadata.key))

\* the text does not parse as a value of that name
FailsToParse(name, text) ==
    CASE name = "bounds" -> ~BoundsFromStr(text).ok
      [] name \in {"minzoom", "maxzoom"} -> ~ParseU8(text).ok
      [] name = "json" -> ~JsonFromStr(text).ok
      [] OTHER -> FALSE

\* the json text parses, its vector_layers entry does not
BadVectorLayers(name, text) ==
    /\ name = "json"
    /\ JsonFromStr(text).ok
    /\ JsonFromStr(text).v.vector_layers # NoVal
    /\ ~VectorLayersFromValue(Get(JsonFromStr(text).v.vector_layers)).ok

ParsedFields ==
    {"name", "bounds", "minzoom", "maxzoom", "vector_layers", "other", "layer_type", "json"}

ParsedField(parsed, f) ==
    CASE f = "layer_type" -> parsed.layer_type
      [] f = "json" -> parsed.json
      [] OTHER -> parsed.tj[f]

\* the fields a row of that name is stored in
FieldsOf(name) ==
    CASE name \in {"name", "bounds", "minzoom", "maxzoom"} -> {name}
      [] name = "type" -> {"layer_type"}
      [] name = "json" -> {"json", "vector_layers"}
      [] OTHER -> {"other"}

RemoveAt(rows, i) == SubSeq(rows, 1, i - 1) \o SubSeq(rows, i + 1, Len(rows))

C16_WitnessVectorLayers ==
    /\ metadata.rows = <<[name |-> "json", value |-> Some("{badvl,k}")]>>
    /\ metadata.parsed # NoVal
    /\ Get(metadata.parsed).tj.vector_layers = NoVal
    /\ Get(metadata.parsed).json # NoVal

(***************************************************************************)
(* Claims about tile reads of a source                                      *)
(***************************************************************************)
\* the blob stored for the request's coordinate, if a row with one is there
\* (none for no row and for a NULL tile_data)
StoredFor(stored, xyz) ==
    LET row == <<xyz.z, xyz.x, 2^xyz.z - 1 - xyz.y>>
    IN  IF row \in StoredCoords /\ stored[row] # NoVal
        THEN Get(stored[row]).tile_data
        ELSE NoVal

\* C17: for every tile request the source answers without error, a
\* coordinate with no stored tile yields a zero-length buffer, not an
\* error, and the endpoint answers 204 exactly when the buffer is empty and
\* 200 otherwise.
C17_EmptyTile ==
    (mbtSource.xyz # NoVal /\ mbtSource.fault = Some("none"))
    => /\ Get(mbtSource.tile).kind = "ok"
       /\ StoredFor(mbtSource.stored, Get(mbtSource.xyz)) = NoVal
          => Get(mbtSource.tile).tile = [bytes |-> <<>>]
       /\ StoredFor(mbtSource.stored, Get(mbtSource.xyz)) # NoVal
          => Get(mbtSource.tile).tile = Get(StoredFor(mbtSource.stored, Get(mbtSource.xyz)))
       /\ Get(mbtSource.response).status =
              IF Len(Get(mbtSource.tile).tile.bytes) = 0 THEN 204 ELSE 200
       /\ Get(mbtSource.response).body = Get(mbtSource.tile).tile

\* witness of C17: a coordinate without a row was asked for and answered
\* with an empty buffer and 204
C17_Witness ==
    /\ mbtSource.fault = Some("none")
    /\ mbtSource.xyz = Some([z |-> 1, x |-> 1, y |-> 0])
    /\ mbtSource.tile = Some([kind |-> "ok", tile |-> [bytes |-> <<>>]])
    /\ Get(mbtSource.response).status = 204

\* a stored blob was asked for and answered with 200
C17_WitnessStored ==
    /\ mbtSource.fault = Some("none")
    /\ mbtSource.xyz = Some([z |-> 1, x |-> 0, y |-> 0])
    /\ mbtSource.stored[<<1, 0, 1>>] = Some([tile_data |-> Some([bytes |-> <<26, 2>>])])
    /\ Get(mbtSource.response) = [status |-> 200, body |-> [bytes |-> <<26, 2>>]]

\* C18: when the tile read fails, the error reaching the caller of the
\* source's get_tile is the underlying failure unchanged, so that a
\* pool-acquisition failure, a missing file and a driver error stay
\* distinguishable.
C18_ErrorUnchanged ==
    (mbtSource.pool # NoVal /\ Get(mbtSource.pool).kind = "err")
    => Get(mbtSource.tile) = Get(mbtSource.pool)

(***************************************************************************)
(* Claims about the composite tile endpoint                                 *)
(***************************************************************************)
\* the last request named only registered table sources, and its z is
\* outside the zoom envelope of each of them
OutsideEveryEnvelope ==
    /\ app.path # NoVal
    /\ app.table_sources # NoVal
    /\ \A i \in 1..Len(Get(app.path).source_ids) :
           /\ Get(app.path).source_ids[i] \in TableSourceIds
           /\ LET source == Get(app.table_sources)[Get(app.path).source_ids[i]]
              IN  \/ source.minzoom # NoVal /\ Get(app.path).z < Get(source.minzoom)
                  \/ source.maxzoom # NoVal /\ Get(app.path).z > Get(source.maxzoom)

\* C19: a composite tile request naming only registered table sources, at a
\* zoom outside the envelope of every one of them, is answered with an
\* empty body and status 204, not an error status, and no database query
\* is issued.
C19_OutsideEnvelope ==
    OutsideEveryEnvelope
    => /\ Get(app.response) = [status |-> 204, body |-> [bytes |-> <<>>]]
       /\ app.queries = 0

(***************************************************************************)
(* Claims about merging configuration layers                                *)
(***************************************************************************)
\* self's previous value when that was set, other's value otherwise
GapFilled(self, other) == IF self # NoVal THEN self ELSE other

\* PgConfig::merge fills gaps only
PgMergeFillsGaps ==
    config.pgMerged # NoVal
    => \A f \in {"connection_string", "default_srid", "pool_size"} :
           Get(config.pgMerged)[f] =
               GapFilled(Get(config.self.postgres)[f], Get(config.other.postgres)[f])

\* C20: Config.merge and PgConfig.merge only fill gaps: every optional
\* field, the postgres section included, is afterwards self's previous
\* value when that was set and other's otherwise; no set field is
\* overwritten and the merge never fails, whatever both sides carry.
C20_MergeFillsGaps ==
    /\ PgMergeFillsGaps
    /\ config.merged # NoVal
       => /\ Get(config.merged).kind = "ok"
          /\ Get(config.merged).config.srv.worker_processes =
                 GapFilled(config.self.srv.worker_processes,
                           config.other.srv.worker_processes)
          /\ Get(config.merged).config.postgres =
                 GapFilled(config.self.postgres, config.other.postgres)

(***************************************************************************)
(* Claims about start-up                                                    *)
(***************************************************************************)
\* the value of the highest layer that supplies one: CLI, then environment,
\* then the config file given by --config
ByPrecedence(cli, env, file) ==
    IF cli # NoVal THEN cli
    ELSE IF env # NoVal THEN env
    ELSE file

\* C21: for every setting that can arrive from several layers the value in
\* effect is the one of the highest layer supplying it, in the order
\* defaults < config file < environment < CLI: a flag overrides the
\* environment variable, and both override the file given by --config.
C21_Precedence ==
    (legacy.outcome # NoVal /\ Get(legacy.outcome).config # NoVal)
    => LET cfg == Get(Get(legacy.outcome).config)
           file == IF legacy.cli.config
                   THEN legacy.file
                   ELSE [connection_string |-> NoVal, default_srid |-> NoVal]
       IN  /\ cfg.connection_string =
                  ByPrecedence(legacy.cli.connection, legacy.env.DATABASE_URL,
                               file.connection_string)
           /\ cfg.default_srid =
                  ByPrecedence(legacy.cli.default_srid,
                               IF legacy.env.DEFAULT_SRID = Some("2") THEN Some(2)
                               ELSE NoVal,
                               file.default_srid)

\* without --config the command line overrides the environment
CliOverEnv ==
    (legacy.outcome # NoVal /\ Get(legacy.outcome).config # NoVal /\ ~legacy.cli.config)
    => C21_Precedence

\* C23: after PgConfig::finalize succeeds, is_autodetect is true exactly
\* when neither tables nor functions was declared; declaring either of
\* them, even as an empty mapping, switches auto-discovery off.
C23_Autodetect ==
    (pgFinal.result # NoVal /\ Get(pgFinal.result).kind = "ok")
    => (Get(pgFinal.result).config.run_autodiscovery
            <=> (pgFinal.self.tables = NoVal /\ pgFinal.self.functions = NoVal))

\* finalize succeeded on a config that declares an empty tables mapping and
\* nothing else, and auto-discovery is off
C23_Witness ==
    /\ pgFinal.result # NoVal
    /\ Get(pgFinal.result).kind = "ok"
    /\ pgFinal.self.tables = Some({})
    /\ pgFinal.self.functions = NoVal
    /\ ~Get(pgFinal.result).config.run_autodiscovery

\* finalize succeeded on a config that declares neither, and auto-discovery
\* is on
C23_WitnessOn ==
    /\ pgFinal.result # NoVal
    /\ Get(pgFinal.result).kind = "ok"
    /\ pgFinal.self.tables = NoVal
    /\ pgFinal.self.functions = NoVal
    /\ Get(pgFinal.result).config.run_autodiscovery

\* the merged config has a postgres entry without a connection string
LacksConnectionString(cfg) ==
    /\ cfg.postgres # NoVal
    /\ \E i \in 1..Len(Get(cfg.postgres)) :
           Get(cfg.postgres)[i].connection_string = NoVal

\* C22: finalizing a config in which any postgres entry lacks a
\* connection_string fails with NoConnectionString, and then no source is
\* resolved and no server is started; when every entry has one, finalize
\* succeeds and keeps each entry's connection string.
C22_NoConnectionString ==
    (proc.merged # NoVal /\ proc.pc # "merged")
    => IF LacksConnectionString(Get(proc.merged))
       THEN /\ proc.error = Some("PostgresError(NoConnectionString)")
            /\ proc.sources = NoVal
            /\ ~proc.server
            /\ proc.pc \in {"error", "exited"}
       ELSE /\ proc.error # Some("PostgresError(NoConnectionString)")
            /\ proc.trace[3] = "finalize"
            /\ (proc.pc = "finalized" /\ Get(proc.merged).postgres # NoVal)
                   => \A i \in 1..Len(Get(Get(proc.merged).postgres)) :
                          Get(Get(proc.config).postgres)[i].connection_string
                              = Get(Get(proc.merged).postgres)[i].connection_string

\* the process exited on NoConnectionString of the second of two postgres
\* entries, the first one having a connection string
C22_Witness ==
    /\ proc.pc = "exited"
    /\ proc.error = Some("PostgresError(NoConnectionString)")
    /\ Len(Get(Get(proc.merged).postgres)) = 2
    /\ Get(Get(proc.merged).postgres)[1].connection_string # NoVal
    /\ Get(Get(proc.merged).postgres)[2].connection_string = NoVal

\* finalize succeeded on two entries that both have a connection string
C22_WitnessOk ==
    /\ proc.pc = "finalized"
    /\ Get(proc.merged).postgres # NoVal
    /\ Len(Get(Get(proc.merged).postgres)) = 2
    /\ ~LacksConnectionString(Get(proc.merged))

\* C29: after Config::resolve returned successfully the Config still holds
\* its postgres section, now with the resolved tables and functions, so the
\* --save-config output contains the connection and the sources.
C29_PostgresKept ==
    (/\ proc.pc \in {"resolved", "saved", "running"}
     /\ Get(proc.merged).postgres # NoVal)
    => /\ Get(proc.config).postgres # NoVal
       /\ \A i \in 1..Len(Get(Get(proc.config).postgres)) :
              /\ Get(Get(proc.config).postgres)[i].tables # NoVal
              /\ Get(Get(proc.config).postgres)[i].functions # NoVal
       /\ proc.saved # NoVal => "postgres" \in Get(proc.saved).keys
       /\ proc.stdout # NoVal => "postgres" \in Get(proc.stdout).keys

\* C26: start-up is strictly ordered (read and merge, finalize, resolve,
\* write the --save-config output, create the server), and when a step
\* fails the process prints the error, also when logging is disabled,
\* exits with a non-zero status, and the server is never started.  Here
\* for main of src/bin/main.rs: a run that failed has printed its error.
C26_FailurePrinted ==
    (legacy.outcome # NoVal /\ Get(legacy.outcome).error # NoVal)
    => /\ Get(legacy.outcome).printed
       /\ Get(legacy.outcome).exit \notin {NoVal, Some(0)}
       /\ ~Get(legacy.outcome).server

\* the steps start of martin/src/bin/main.rs has taken are a prefix of the
\* five steps in their order, and the server exists only after all of them
StartOrdered ==
    /\ Len(proc.trace) <= Len(StartSteps)
    /\ \A i \in 1..Len(proc.trace) : proc.trace[i] = StartSteps[i]
    /\ proc.server => (proc.trace = StartSteps /\ proc.error = NoVal)

\* a failed step of start of martin/src/bin/main.rs leads to on_error: the
\* error is printed, the exit status is 1, no server
StartFailureExits ==
    (proc.error # NoVal) ~> (proc.printed /\ proc.exit = Some(1) /\ ~proc.server)

\* a failed run of start never has a server
StartFailureNoServer == proc.error # NoVal => ~proc.server

(***************************************************************************)
(* Claims about the running server                                          *)
(***************************************************************************)
\* C25: once the server runs, the set of registered sources the handlers
\* see never changes, whatever requests are served, the source-index
\* endpoints included.
C25_RegistryFixed ==
    /\ registry.table_sources = registry.started.table_sources
    /\ registry.function_sources = registry.started.function_sources

\* without watch mode the lists stay as they were at start
FixedWithoutWatch == ~registry.watch_mode => C25_RegistryFixed

\* a caller that awaits acquire() or holds no call has no connection, a
\* caller in a call has exactly one, and the connections handed out are the
\* ones held and fit the pool
PoolSafe ==
    /\ \A c \in Callers :
           /\ pool.holds[c] <= 1
           /\ pool.pc[c] \in {"idle", "get_tile", "get_metadata"} => pool.holds[c] = 0
    /\ pool.inUse = Cardinality({c \in Callers : pool.holds[c] = 1})
    /\ pool.inUse <= MaxConnections

\* C24: in every interleaving of concurrent get_tile and get_metadata calls
\* on one archive each call holds at most one pooled connection, the
\* connections in use never exceed the pool's bound, and every call hands
\* its connection back on every exit path (found, absent, error), so that
\* a request waiting for a connection eventually proceeds.
C24_PoolBounded ==
    /\ []PoolSafe
    /\ \A c \in Callers :
           (pool.pc[c] \in {"get_tile", "get_metadata"})
               ~> (pool.pc[c] \notin {"get_tile", "get_metadata"})

\* every connection is in use, a caller waits for one, and the last call
\* to return ended in an error
C24_Witness ==
    /\ pool.inUse = MaxConnections
    /\ pool.queue # <<>>
    /\ pool.last = Some("error")
    /\ \E c \in Callers : pool.pc[c] = "detect"

(***************************************************************************)
(* Claims about the copier's source                                         *)
(***************************************************************************)
\* C27: TileCopier::run inspects the source before it touches the
\* destination: when the source cannot be opened or its shape is not
\* recognised (InvalidDataFormat), run fails and has neither created the
\* destination file nor written to an existing one.
C27_SourceFirst ==
    (lastResult # None /\ (~srcDb.exists \/ DetectType(srcDb) = "InvalidDataFormat"))
    => /\ lastResult = IF srcDb.exists THEN "InvalidDataFormat" ELSE "SqlError"
       /\ dstDb = dstBefore

\* a run on a source of unrecognised shape failed and there is still no
\* destination file
C27_Witness ==
    /\ lastResult = "InvalidDataFormat"
    /\ srcDb.exists
    /\ ~dstBefore.exists
    /\ ~dstDb.exists

\* a run on a missing source failed and there is still no destination file
C27_WitnessMissing ==
    /\ lastResult = "SqlError"
    /\ ~srcDb.exists
    /\ ~dstDb.exists

\* C28: no run of TileCopier changes the source archive (schema, metadata
\* rows, tile rows), although the source is attached to the writable
\* destination connection.
C28_SourceUnchanged == [][srcDb' = srcDb]_vars

\* a run copied the metadata and the map rows of a deduplicated source into
\* a fresh destination
C28_Witness ==
    /\ lastResult = "Ok"
    /\ DetectType(srcDb) = "DeDuplicated"
    /\ ~dstBefore.exists
    /\ dstDb.meta = srcDb.meta
    /\ dstDb.map = srcDb.map
    /\ srcDb.map # EmptyBag

(***************************************************************************)
(* Claims about the row arithmetic of get_tile                              *)
(***************************************************************************)
\* C30: for every request (z, x, y) get_tile computes 2^z - 1 - y without
\* overflow or underflow of the 32-bit arithmetic: a request with
\* y >= 2^z ends in "no tile", never in the lookup of a wrapped row and
\* never in a fault.
C30_NoUnderflow ==
    (req # NoVal /\ Get(req).y >= 2^(Get(req).z))
    => /\ Get(tmsRow).kind \notin {"wrapped", "panic"}
       /\ tileOut = Some(NoVal)

====
